---- MODULE Spec2Model ----
(***************************************************************************)
(* State-machine model of the PDFNotebook React component (the version     *)
(* with column visibility, responsive scale and text extraction).          *)
(*                                                                         *)
(* A string is a sequence of one-character strings, so that trim, join     *)
(* and template formatting are computed, not assumed.  A File is a record  *)
(* describing what the browser and pdf.js report for it.                   *)
(***************************************************************************)
EXTENDS Integers, Sequences, FiniteSets, TLC

\* ---------------------------------------------------------------- bounds
\* Largest page count of a document of the model.
MaxPages == 2
\* Largest number of extraction passes in flight at the same time.
MaxPasses == 2

\* ---------------------------------------------------------------- values
\* JavaScript null of a string- or File-valued state.
Null == "null"
\* null in a useState<number | null>.
NoNum == -1

\* The empty string ''.
EmptyStr == << >>

\* The characters String.prototype.trim removes that occur in the model.
WhiteSpace == {" ", "\n", "\t"}

\* One decimal digit as a character (page numbers of the model are < 10).
Digit(i) == CASE i = 0 -> "0" [] i = 1 -> "1" [] i = 2 -> "2" [] i = 3 -> "3"
              [] i = 4 -> "4" [] i = 5 -> "5" [] i = 6 -> "6" [] i = 7 -> "7"
              [] i = 8 -> "8" [] i = 9 -> "9"

\* String(i) for a non-negative integer.
RECURSIVE NumToStr(_)
NumToStr(i) == IF i < 10 THEN << Digit(i) >>
               ELSE NumToStr(i \div 10) \o << Digit(i % 10) >>

\* Array.prototype.join: the strings of seq with sep between neighbours.
RECURSIVE Join(_, _)
Join(seq, sep) == IF Len(seq) = 0 THEN EmptyStr
                  ELSE IF Len(seq) = 1 THEN seq[1]
                  ELSE seq[1] \o sep \o Join(Tail(seq), sep)

\* String.prototype.trimStart.
RECURSIVE TrimStart(_)
TrimStart(s) == IF Len(s) > 0 /\ Head(s) \in WhiteSpace THEN TrimStart(Tail(s))
                ELSE s

\* String.prototype.trimEnd.
RECURSIVE TrimEnd(_)
TrimEnd(s) == IF Len(s) > 0 /\ s[Len(s)] \in WhiteSpace
              THEN TrimEnd(SubSeq(s, 1, Len(s) - 1))
              ELSE s

\* String.prototype.trim.
Trim(s) == TrimEnd(TrimStart(s))

\* ----------------------------------------------------------------- files
\* The media type onFileChange accepts.
PdfType == "application/pdf"

\* File objects the user can pick, by name.  type is File.type; pages,
\* corrupt, width are what pdf.js finds in the bytes: the page count, whether
\* opening the document fails, the width of page 1 at scale 1.  badPage are
\* the pages whose pdf.getPage rejects, badText the pages whose
\* getTextContent rejects.
FileInfo(name) ==
  CASE name = "b" -> [type |-> PdfType, pages |-> MaxPages, corrupt |-> FALSE,
                      width |-> 600, badPage |-> {1}, badText |-> {}]
    [] name = "c" -> [type |-> PdfType, pages |-> MaxPages, corrupt |-> FALSE,
                      width |-> 600, badPage |-> {}, badText |-> {1}]
    [] name = "g" -> [type |-> PdfType, pages |-> MaxPages, corrupt |-> FALSE,
                      width |-> 600, badPage |-> {2}, badText |-> {}]
    [] name = "s" -> [type |-> PdfType, pages |-> 1, corrupt |-> FALSE,
                      width |-> 800, badPage |-> {}, badText |-> {}]
    [] name = "d" -> [type |-> PdfType, pages |-> 0, corrupt |-> TRUE,
                      width |-> 0, badPage |-> {}, badText |-> {}]
    [] name = "e" -> [type |-> "text/plain", pages |-> 0, corrupt |-> TRUE,
                      width |-> 0, badPage |-> {}, badText |-> {}]

\* "b": getPage(1) rejects; "c": getTextContent of page 1 rejects; "s": a
\* one-page document without faults; "d": a PDF pdf.js cannot open; "e": not
\* a PDF.
Files == {"b", "c", "s", "d", "e"}

\* The files of SpecExtract: the two-page documents "c" and "g", whose
\* passes run their loop with one failing page each, the corrupt "d" and
\* "e", which is not a PDF.
ExtractFiles == {"c", "g", "d", "e"}

\* textContent.items of page k of file f: two text items, the file's name
\* and the page number.
TextItems(f, k) == << << f >>, NumToStr(k) >>


\* pageText of lines 687-690: the str of every item, joined with one space.
PageText(f, k) == Join(TextItems(f, k), << " " >>)

\* --------------------------------------------------------------- numbers
\* A number n / d with d > 0, so that the arithmetic of the scales and of
\* the measured widths, which are fractions of a pixel, is exact.
Rat(n, d) == [n |-> n, d |-> d]
RatLE(x, y) == x.n * y.d <= y.n * x.d
\* Math.max and Math.min.
RatMax(x, y) == IF RatLE(x, y) THEN y ELSE x
RatMin(x, y) == IF RatLE(x, y) THEN x ELSE y

\* The greatest common divisor of a >= 0 and b >= 0.
RECURSIVE Gcd(_, _)
Gcd(a, b) == IF b = 0 THEN a ELSE Gcd(b, a % b)

\* x in lowest terms.
Lowest(x) == LET g == Gcd(x.n, x.d) IN Rat(x.n \div g, x.d \div g)

\* The whole number n.
Px(n) == Rat(n, 1)

\* x * y and x + y, in lowest terms; the product is reduced crosswise
\* before it is multiplied out.
RatMul(x, y) ==
  LET a == Lowest(Rat(x.n, y.d))
      b == Lowest(Rat(y.n, x.d))
  IN Lowest(Rat(a.n * b.n, a.d * b.d))
RatAdd(x, y) == Lowest(Rat(x.n * y.d + y.n * x.d, x.d * y.d))

\* ----------------------------------------------------------------- state
VARIABLES
  pdfFile,              \* useState<File | null>: the selected file
  numPages,             \* useState<number | null>
  ocrTexts,             \* useState<OcrTexts>: page number -> text
  loading,              \* useState<boolean>
  error,                \* useState<string | null>
  enlargedPage,         \* useState<number | null>
  isModalOpen,          \* useState<boolean>
  layoutMode,           \* useState<LayoutMode>
  pdfVisible,           \* useState<boolean>
  textVisible,          \* useState<boolean>
  allTextVisible,       \* useState<boolean>
  containerWidth,       \* useState<number>
  modalContainerWidth,  \* useState<number>
  pdfPageWidth,         \* useState<number>
  renderedPdfVisible,   \* pdfVisible as captured by the callbacks of the last render
  renderedTextVisible,  \* textVisible as captured by the callbacks of the last render
  docStatus,            \* the <Document> of the PDF column: unmounted, loading, loaded or failed
  modalDocStatus,       \* the <Document> of the modal with its <Page>: unmounted, loading, failed, loaded (the page loading), drawn or pageFailed
  passes,               \* the suspended runs of onDocumentLoadSuccess's extraction, oldest first
  staleSeed,            \* history: ocrTexts was last written by a pass started before the latest selection or clear
  lostEdits,            \* history: the pass that ended last replaced a note store that held a user's edit, and there was no selection, clear, load or edit since
  warnLog,              \* history: the pages of the console.warn calls (line 693) of the pass that ended last since the latest selection or clear
  ret,                  \* the value returned by the last call of a pure helper
  written,              \* the texts handed to navigator.clipboard.writeText, in call order
  alerts,               \* the messages shown with alert(), in call order
  pendingWrites,        \* the calls of copyAllTextToClipboard suspended at `await writeText`
  innerWidth,           \* window.innerWidth
  mounted,              \* the component: rendered (first render, effects not yet run), mounted or unmounted
  effectDeps,           \* the dependency values the useEffect calls last ran with
  resizeListeners,      \* the 'resize' listeners registered on window
  keydownListeners,     \* the 'keydown' listeners registered on document
  bodyOverflow,         \* document.body.style.overflow
  modalTimer,           \* the ms left of the pending setTimeout of line 856, NoNum when none is pending
  pendingTimers,        \* the callbacks handed to setTimeout at line 856 that are neither run nor cleared
  burstReads,           \* history: the reads of the PDF column's width by handleResize since time last passed
  modalReads,           \* history: the reads of the width of the modal's div
  modalReadWait,        \* history: the ms left of the timer at the earliest read of the modal's width since it was set, NoNum when none
  droppedEdits,         \* history: the latest valid selection replaced a note store that held a user's edit, and there was no clear and no edit since
  viewMode,             \* useState<ViewMode> of the component with the two-document comparison
  pdfFile1,             \* useState<File | null>: PDF 1 of the comparison
  pdfFile2,             \* useState<File | null>: PDF 2 of the comparison
  numPages1,            \* useState<number | null>
  numPages2,            \* useState<number | null>
  loading1,             \* useState<boolean>
  loading2,             \* useState<boolean>
  error1,               \* useState<string | null>
  error2,               \* useState<string | null>
  docStatus1,           \* the <Document> of the PDF 1 column: unmounted, loading, loaded or failed
  docStatus2            \* the <Document> of the PDF 2 column

docVars == << pdfFile, numPages, ocrTexts, loading, error >>
modalVars == << enlargedPage, isModalOpen >>
paneVars == << pdfVisible, textVisible, allTextVisible >>
renderVars == << renderedPdfVisible, renderedTextVisible >>
scaleVars == << containerWidth, modalContainerWidth, pdfPageWidth >>
asyncVars == << docStatus, passes, staleSeed, warnLog, lostEdits >>
copyVars == << written, alerts, pendingWrites >>
effectVars == << innerWidth, mounted, effectDeps, resizeListeners,
                keydownListeners, bodyOverflow, modalTimer, pendingTimers,
                burstReads, modalReads, modalReadWait >>
pdf1Vars == << pdfFile1, numPages1, loading1, error1 >>
pdf2Vars == << pdfFile2, numPages2, loading2, error2 >>
cmpVars == << viewMode, pdf1Vars, pdf2Vars, docStatus1, docStatus2 >>
vars == << docVars, modalVars, layoutMode, paneVars, renderVars, scaleVars,
           asyncVars, modalDocStatus, ret, copyVars, effectVars, droppedEdits, cmpVars >>

\* ret before any helper was called.
NoCall == [op |-> "none"]

\* The {} of useState<OcrTexts>({}) and of setOcrTexts({}).
EmptyTexts == << >>

\* {...prev, [pageNumber]: text}
Spread(prev, pageNumber, text) ==
  [k \in (DOMAIN prev) \cup {pageNumber} |->
     IF k = pageNumber THEN text ELSE prev[k]]

\* The useState initial values of the component with the two-document
\* comparison (lines 22, 32-39); no <Document> is mounted.
InitComparison ==
  /\ viewMode = "single"
  /\ pdfFile1 = Null
  /\ pdfFile2 = Null
  /\ numPages1 = NoNum
  /\ numPages2 = NoNum
  /\ loading1 = FALSE
  /\ loading2 = FALSE
  /\ error1 = Null
  /\ error2 = Null
  /\ docStatus1 = "unmounted"
  /\ docStatus2 = "unmounted"

\* The state after construction: the useState initial values.
Init ==
  /\ pdfFile = Null
  /\ numPages = NoNum
  /\ ocrTexts = EmptyTexts
  /\ loading = FALSE
  /\ error = Null
  /\ enlargedPage = NoNum
  /\ isModalOpen = FALSE
  /\ layoutMode = "normal"
  /\ pdfVisible = TRUE
  /\ textVisible = TRUE
  /\ allTextVisible = TRUE
  /\ containerWidth = Px(0)
  /\ modalContainerWidth = Px(0)
  /\ pdfPageWidth = 0
  /\ renderedPdfVisible = TRUE
  /\ renderedTextVisible = TRUE
  /\ docStatus = "unmounted"
  /\ modalDocStatus = "unmounted"
  /\ passes = << >>
  /\ staleSeed = FALSE
  /\ lostEdits = FALSE
  /\ warnLog = << >>
  /\ ret = NoCall
  /\ written = << >>
  /\ alerts = << >>
  /\ pendingWrites = 0
  /\ innerWidth = 1300
  /\ mounted = "rendered"
  /\ effectDeps = [pdfVisible |-> TRUE, textVisible |-> TRUE,
                   allTextVisible |-> TRUE, isModalOpen |-> FALSE]
  /\ resizeListeners = 0
  /\ keydownListeners = 0
  /\ bodyOverflow = ""
  /\ modalTimer = NoNum
  /\ pendingTimers = 0
  /\ burstReads = 0
  /\ modalReads = 0
  /\ modalReadWait = NoNum
  /\ droppedEdits = FALSE
  /\ InitComparison

\* The callbacks of the last render see the current visibility flags: React
\* has re-rendered since the last state update.
Rendered == renderedPdfVisible = pdfVisible /\ renderedTextVisible = textVisible

\* Texts the user types into a page's textarea.
EditTexts == { << "x" >> }

\* The note store holds a text the user typed.
HoldsEdit(store) == \E k \in DOMAIN store : store[k] \in EditTexts

\* Every pass in flight becomes one that an earlier selection started.
MarkStale(ps) == [i \in 1..Len(ps) |-> [ps[i] EXCEPT !.stale = TRUE]]

\* The modal is in the DOM of a render with the values given:
\* {isModalOpen && enlargedPage && pdfFile && ...} of line 1276; the page 0
\* is falsy as null is.
ModalShown(open, page, file) ==
  open /\ page # NoNum /\ page # 0 /\ file # Null

\* The modal is in the DOM.
ModalRendered == ModalShown(isModalOpen, enlargedPage, pdfFile)

\* The <Document file={pdfFile}> of the modal with its <Page
\* pageNumber={enlargedPage}> (lines 1305-1312) after a render: unmounted
\* with the modal, loading once the modal has come into the DOM or its file
\* prop has changed, loading its page again once the pageNumber prop of a
\* settled page has changed, otherwise as it was.
ModalDocumentAfterRender(shown, newFile, newPage, status) ==
  IF ~shown THEN "unmounted"
  ELSE IF newFile \/ status = "unmounted" THEN "loading"
  ELSE IF newPage /\ status \in {"drawn", "pageFailed"} THEN "loaded"
  ELSE status

\* ------------------------------------------------------- file selection
\* onFileChange without the test of file.type of line 715: every file is
\* taken as a PDF.
onFileChangeNoTypeTest(file) ==
  /\ Rendered
  /\ IF file = Null
     THEN UNCHANGED << docVars, asyncVars, modalDocStatus, droppedEdits >>
     ELSE /\ pdfFile' = file
          /\ loading' = TRUE
          /\ error' = Null
          /\ numPages' = NoNum
          /\ ocrTexts' = EmptyTexts
          /\ docStatus' = IF pdfVisible THEN "loading" ELSE "unmounted"
          /\ modalDocStatus' =
               ModalDocumentAfterRender(ModalShown(isModalOpen, enlargedPage, file),
                                        TRUE, FALSE, modalDocStatus)
          /\ passes' = MarkStale(passes)
          /\ staleSeed' = FALSE
          /\ lostEdits' = FALSE
          /\ warnLog' = << >>
          /\ droppedEdits' = HoldsEdit(ocrTexts)
  /\ UNCHANGED << modalVars, layoutMode, paneVars, renderVars, scaleVars, ret,
                  copyVars, effectVars, cmpVars >>

\* onFileChange without the setOcrTexts({}) of line 720: the note store
\* keeps what it holds until the new document loads.
onFileChangeKeepsNotes(file) ==
  /\ Rendered
  /\ IF file = Null
     THEN UNCHANGED << docVars, asyncVars, modalDocStatus, droppedEdits >>
     ELSE IF FileInfo(file).type = PdfType
     THEN /\ pdfFile' = file
          /\ loading' = TRUE
          /\ error' = Null
          /\ numPages' = NoNum
          /\ UNCHANGED ocrTexts
          /\ docStatus' = IF pdfVisible THEN "loading" ELSE "unmounted"
          /\ modalDocStatus' =
               ModalDocumentAfterRender(ModalShown(isModalOpen, enlargedPage, file),
                                        TRUE, FALSE, modalDocStatus)
          /\ passes' = MarkStale(passes)
          /\ staleSeed' = FALSE
          /\ lostEdits' = FALSE
          /\ warnLog' = << >>
          /\ droppedEdits' = HoldsEdit(ocrTexts)
     ELSE /\ loading' = FALSE
          /\ error' = "Please select a valid PDF file."
          /\ UNCHANGED << pdfFile, numPages, ocrTexts, asyncVars,
                          modalDocStatus, droppedEdits >>
  /\ UNCHANGED << modalVars, layoutMode, paneVars, renderVars, scaleVars, ret,
                  copyVars, effectVars, cmpVars >>

\* onFileChange with event.target.files[0] = file (Null: no file chosen).
onFileChange(file) ==
  /\ Rendered
  /\ IF file = Null
     THEN UNCHANGED << docVars, asyncVars, modalDocStatus, droppedEdits >>
     ELSE IF FileInfo(file).type = PdfType
     THEN /\ pdfFile' = file
          /\ loading' = TRUE
          /\ error' = Null
          /\ numPages' = NoNum
          /\ ocrTexts' = EmptyTexts
          \* <Document file={pdfFile}> is rendered inside {pdfVisible && ...}
          /\ docStatus' = IF pdfVisible THEN "loading" ELSE "unmounted"
          /\ modalDocStatus' =
               ModalDocumentAfterRender(ModalShown(isModalOpen, enlargedPage, file),
                                        TRUE, FALSE, modalDocStatus)
          /\ passes' = MarkStale(passes)
          /\ staleSeed' = FALSE
          /\ lostEdits' = FALSE
          /\ warnLog' = << >>
          /\ droppedEdits' = HoldsEdit(ocrTexts)
     ELSE /\ loading' = FALSE
          /\ error' = "Please select a valid PDF file."
          /\ UNCHANGED << pdfFile, numPages, ocrTexts, asyncVars,
                          modalDocStatus, droppedEdits >>
  /\ UNCHANGED << modalVars, layoutMode, paneVars, renderVars, scaleVars, ret,
                  copyVars, effectVars, cmpVars >>

\* clearPdf without the setOcrTexts({}) of line 731: the notes of the
\* cleared document stay in the store.
clearPdfKeepsNotes ==
  /\ Rendered
  /\ pdfFile' = Null
  /\ numPages' = NoNum
  /\ UNCHANGED ocrTexts
  /\ loading' = FALSE
  /\ error' = Null
  /\ docStatus' = "unmounted"
  /\ modalDocStatus' = "unmounted"
  /\ passes' = MarkStale(passes)
  /\ staleSeed' = FALSE
  /\ lostEdits' = FALSE
  /\ warnLog' = << >>
  /\ droppedEdits' = FALSE
  /\ UNCHANGED << modalVars, layoutMode, paneVars, renderVars, scaleVars, ret,
                  copyVars, effectVars, cmpVars >>

\* clearPdf.
clearPdf ==
  /\ Rendered
  /\ pdfFile' = Null
  /\ numPages' = NoNum
  /\ ocrTexts' = EmptyTexts
  /\ loading' = FALSE
  /\ error' = Null
  /\ docStatus' = "unmounted"
  /\ modalDocStatus' = "unmounted"
  /\ passes' = MarkStale(passes)
  /\ staleSeed' = FALSE
  /\ lostEdits' = FALSE
  /\ warnLog' = << >>
  /\ droppedEdits' = FALSE
  /\ UNCHANGED << modalVars, layoutMode, paneVars, renderVars, scaleVars, ret,
                  copyVars, effectVars, cmpVars >>

\* --------------------------------------------------------- document load
\* initialTexts with the loop bound `i < numPages`: the last page gets no key.
InitialTextsShort(n) == [i \in 1..(n - 1) |-> EmptyStr]

\* initialTexts of lines 662-665.
InitialTexts(n) == [i \in 1..n |-> EmptyStr]

\* The pass onDocumentLoadSuccess starts when its closure holds a file.
NewPass(file, n) ==
  [file |-> file, numPages |-> n, pc |-> "open", pageNum |-> 0,
   extractedTexts |-> EmptyTexts, warned |-> << >>, requested |-> << >>,
   stores |-> 0, stale |-> FALSE]

\* onDocumentLoadSuccess({numPages: n}) up to its first await (lines 657-672).
\* The pdfFile of line 669 is the one of the render that mounted the
\* <Document>, which is the current one.
onDocumentLoadSuccess(n) ==
  /\ numPages' = n
  /\ loading' = FALSE
  /\ error' = Null
  /\ ocrTexts' = InitialTexts(n)
  /\ passes' = IF pdfFile # Null THEN Append(passes, NewPass(pdfFile, n))
               ELSE passes
  /\ staleSeed' = FALSE
  /\ lostEdits' = FALSE
  /\ UNCHANGED << pdfFile, modalVars, modalDocStatus, layoutMode, paneVars, renderVars,
                  scaleVars, warnLog, ret, copyVars,
                  effectVars, droppedEdits, cmpVars >>

\* react-pdf has opened the file of the mounted <Document> and calls
\* onLoadSuccess with its page count.
DocumentLoaded ==
  /\ Rendered
  /\ docStatus = "loading"
  /\ ~FileInfo(pdfFile).corrupt
  /\ Len(passes) < MaxPasses
  /\ docStatus' = "loaded"
  /\ onDocumentLoadSuccess(FileInfo(pdfFile).pages)

\* onDocumentLoadError without the setLoading(false) of line 708: the
\* notice is set and the loading flag stays.
onDocumentLoadErrorKeepsLoading ==
  /\ error' = "Failed to load PDF. Please make sure the file is a valid PDF."
  /\ UNCHANGED << loading, pdfFile, numPages, ocrTexts, passes, staleSeed, lostEdits, warnLog,
                  modalVars, modalDocStatus, layoutMode, paneVars, renderVars, scaleVars, ret, copyVars,
                  effectVars, droppedEdits, cmpVars >>

\* onDocumentLoadError: react-pdf could not open the file.
onDocumentLoadError ==
  /\ loading' = FALSE
  /\ error' = "Failed to load PDF. Please make sure the file is a valid PDF."
  /\ UNCHANGED << pdfFile, numPages, ocrTexts, passes, staleSeed, lostEdits, warnLog,
                  modalVars, modalDocStatus, layoutMode, paneVars, renderVars, scaleVars, ret, copyVars,
                  effectVars, droppedEdits, cmpVars >>

\* react-pdf could not open the file of the mounted <Document> and calls
\* onLoadError.
DocumentFailed ==
  /\ Rendered
  /\ docStatus = "loading"
  /\ FileInfo(pdfFile).corrupt
  /\ docStatus' = "failed"
  /\ onDocumentLoadError


\* ------------------------------------------------------ extraction pass
\* seq without its i-th element.
RemoveAt(seq, i) == SubSeq(seq, 1, i - 1) \o SubSeq(seq, i + 1, Len(seq))

\* The catch of line 699: the pass ends, ocrTexts keeps what it holds.
ExtractAbort(i) ==
  /\ passes' = RemoveAt(passes, i)
  /\ warnLog' = passes[i].warned
  /\ UNCHANGED << docVars, pdfPageWidth, staleSeed, lostEdits >>

\* The loop with setOcrTexts(extractedTexts) moved into its body: the pass
\* writes what it has collected after every page.  stores counts the calls
\* of setOcrTexts the pass has made while in flight.
ExtractLoopWritesEach(i, k, texts, warned) ==
  IF k <= passes[i].numPages
  THEN /\ passes' = [passes EXCEPT ![i].pc = "getPage", ![i].pageNum = k,
                                   ![i].extractedTexts = texts,
                                   ![i].warned = warned,
                                   ![i].requested = Append(@, k),
                                   ![i].stores = IF k > 1 THEN @ + 1 ELSE @]
       /\ ocrTexts' = IF k > 1 THEN texts ELSE ocrTexts
       /\ staleSeed' = IF k > 1 THEN passes[i].stale ELSE staleSeed
       /\ lostEdits' = IF k > 1 THEN HoldsEdit(ocrTexts) ELSE lostEdits
       /\ UNCHANGED warnLog
  ELSE /\ ocrTexts' = texts
       /\ staleSeed' = passes[i].stale
       /\ lostEdits' = HoldsEdit(ocrTexts)
       /\ warnLog' = warned
       /\ passes' = RemoveAt(passes, i)

\* The loop with setOcrTexts(prev => ...) at line 698 keeping every text of
\* prev the user typed: the extraction result is merged into the note store.
ExtractLoopMerges(i, k, texts, warned) ==
  IF k <= passes[i].numPages
  THEN /\ passes' = [passes EXCEPT ![i].pc = "getPage", ![i].pageNum = k,
                                   ![i].extractedTexts = texts,
                                   ![i].warned = warned,
                                   ![i].requested = Append(@, k)]
       /\ UNCHANGED << ocrTexts, staleSeed, lostEdits, warnLog >>
  ELSE /\ ocrTexts' = [j \in DOMAIN texts |->
                         IF j \in DOMAIN ocrTexts /\ ocrTexts[j] \in EditTexts
                         THEN ocrTexts[j] ELSE texts[j]]
       /\ staleSeed' = passes[i].stale
       /\ lostEdits' = HoldsEdit(ocrTexts)
       /\ warnLog' = warned
       /\ passes' = RemoveAt(passes, i)

\* The component is not unmounted: React drops the state updates of an
\* unmounted component.
Alive == mounted # "unmounted"

\* The pass continues at `for (pageNum ...; pageNum <= numPages; ...)` with
\* pageNum = k, extractedTexts = texts and the pages warned logged by its
\* console.warn: the next page is requested, or the loop is over and line
\* 698 runs setOcrTexts(extractedTexts).  requested is the history of the
\* pages whose iteration (lines 684-691) the pass has begun, stores the
\* number of calls of setOcrTexts the pass has made while in flight: the
\* loop body has none.
ExtractLoop(i, k, texts, warned) ==
  IF k <= passes[i].numPages
  THEN /\ passes' = [passes EXCEPT ![i].pc = "getPage", ![i].pageNum = k,
                                   ![i].extractedTexts = texts,
                                   ![i].warned = warned,
                                   ![i].requested = Append(@, k)]
       /\ UNCHANGED << ocrTexts, staleSeed, lostEdits, warnLog >>
  ELSE /\ ocrTexts' = IF Alive THEN texts ELSE ocrTexts
       /\ staleSeed' = IF Alive THEN passes[i].stale ELSE staleSeed
       /\ lostEdits' = IF Alive THEN HoldsEdit(ocrTexts) ELSE lostEdits
       /\ warnLog' = warned
       /\ passes' = RemoveAt(passes, i)

\* pdfFile.arrayBuffer() of line 672 settles: resolved when ok, and the pass
\* calls pdfjs.getDocument and suspends at line 673, rejected otherwise.
ExtractArrayBuffer(i, ok) ==
  /\ passes[i].pc = "open"
  /\ IF ~ok THEN ExtractAbort(i)
     ELSE /\ passes' = [passes EXCEPT ![i].pc = "getDocument"]
          /\ UNCHANGED << docVars, pdfPageWidth, staleSeed, lostEdits, warnLog >>

\* pdfjs.getDocument(...).promise of line 673 settles: resolved when ok,
\* rejected otherwise.
ExtractOpen(i, ok) ==
  /\ passes[i].pc = "getDocument"
  /\ IF ~ok THEN ExtractAbort(i)
     ELSE IF passes[i].numPages > 0
     THEN /\ passes' = [passes EXCEPT ![i].pc = "firstPage"]
          /\ UNCHANGED << docVars, pdfPageWidth, staleSeed, lostEdits, warnLog >>
     ELSE /\ ExtractLoop(i, 1, EmptyTexts, << >>)
          /\ UNCHANGED << pdfFile, numPages, loading, error, pdfPageWidth >>

\* pdf.getPage(1) of line 678 settles, outside the per-page try.
ExtractFirstPage(i) ==
  /\ passes[i].pc = "firstPage"
  /\ IF 1 \in FileInfo(passes[i].file).badPage THEN ExtractAbort(i)
     ELSE /\ pdfPageWidth' = IF Alive THEN FileInfo(passes[i].file).width
                            ELSE pdfPageWidth
          /\ ExtractLoop(i, 1, EmptyTexts, << >>)
          /\ UNCHANGED << pdfFile, numPages, loading, error >>

\* pdf.getPage(pageNum) of line 685 settles; a rejection is caught at line
\* 692, logged with console.warn, and the page gets ''.
ExtractGetPage(i) ==
  LET p == passes[i] IN
  /\ p.pc = "getPage"
  /\ IF p.pageNum \in FileInfo(p.file).badPage
     THEN ExtractLoop(i, p.pageNum + 1,
                      Spread(p.extractedTexts, p.pageNum, EmptyStr),
                      Append(p.warned, p.pageNum))
     ELSE /\ passes' = [passes EXCEPT ![i].pc = "getText"]
          /\ UNCHANGED << ocrTexts, staleSeed, lostEdits, warnLog >>
  /\ UNCHANGED << pdfFile, numPages, loading, error, pdfPageWidth >>

\* page.getTextContent() settles with the try of line 684 left out: a
\* rejection reaches the catch of line 699 and ends the pass.
ExtractGetTextNoTry(i) ==
  LET p == passes[i] IN
  /\ p.pc = "getText"
  /\ IF p.pageNum \in FileInfo(p.file).badText
     THEN /\ ExtractAbort(i)
          /\ UNCHANGED << pdfFile, numPages, loading, error, pdfPageWidth >>
     ELSE /\ ExtractLoop(i, p.pageNum + 1,
                         Spread(p.extractedTexts, p.pageNum,
                                PageText(p.file, p.pageNum)),
                         p.warned)
          /\ UNCHANGED << pdfFile, numPages, loading, error, pdfPageWidth >>

\* page.getTextContent() settles in a loop that tries a failed page again:
\* the rejection is logged and the same page is requested once more.
ExtractGetTextRetry(i) ==
  LET p == passes[i] IN
  /\ p.pc = "getText"
  /\ IF p.pageNum \in FileInfo(p.file).badText
     THEN ExtractLoop(i, p.pageNum, p.extractedTexts,
                      Append(p.warned, p.pageNum))
     ELSE ExtractLoop(i, p.pageNum + 1,
                      Spread(p.extractedTexts, p.pageNum,
                             PageText(p.file, p.pageNum)),
                      p.warned)
  /\ UNCHANGED << pdfFile, numPages, loading, error, pdfPageWidth >>

\* page.getTextContent() of line 686 settles; a rejection is caught at line
\* 692, logged with console.warn, and the page gets ''.
ExtractGetText(i) ==
  LET p == passes[i] IN
  /\ p.pc = "getText"
  /\ IF p.pageNum \in FileInfo(p.file).badText
     THEN ExtractLoop(i, p.pageNum + 1,
                      Spread(p.extractedTexts, p.pageNum, EmptyStr),
                      Append(p.warned, p.pageNum))
     ELSE ExtractLoop(i, p.pageNum + 1,
                      Spread(p.extractedTexts, p.pageNum,
                             PageText(p.file, p.pageNum)),
                      p.warned)
  /\ UNCHANGED << pdfFile, numPages, loading, error, pdfPageWidth >>

\* One awaited promise of one suspended pass settles.
ExtractStep ==
  /\ Rendered
  /\ \E i \in 1..Len(passes) :
       \/ \E ok \in BOOLEAN : ExtractArrayBuffer(i, ok)
       \/ \E ok \in BOOLEAN : ExtractOpen(i, ok)
       \/ ExtractFirstPage(i)
       \/ ExtractGetPage(i)
       \/ ExtractGetText(i)
  /\ UNCHANGED << docStatus, modalVars, modalDocStatus, layoutMode, paneVars, renderVars,
                  containerWidth, modalContainerWidth, ret, copyVars,
                  effectVars, droppedEdits, cmpVars >>


\* ----------------------------------------------------------- note store
\* Page numbers handed to openEnlargedView: those of a document and one
\* below and one above every document's range.
PageArgs == 0..(MaxPages + 1)

\* Page numbers handed to handleOcrTextChange: the first page and one above
\* every document's range.
EditArgs == {1, MaxPages + 1}

\* handleOcrTextChange(pageNumber, text).
handleOcrTextChange(pageNumber, text) ==
  /\ Rendered
  /\ ocrTexts' = Spread(ocrTexts, pageNumber, text)
  /\ droppedEdits' = FALSE
  /\ lostEdits' = FALSE
  /\ UNCHANGED << pdfFile, numPages, loading, error, modalVars, modalDocStatus, layoutMode,
                  paneVars, renderVars, scaleVars, docStatus, passes,
                  staleSeed, warnLog, ret, copyVars, effectVars, cmpVars >>

\* ---------------------------------------------------------------- modal
\* openEnlargedView(pageNumber).
openEnlargedView(pageNumber) ==
  /\ Rendered
  /\ enlargedPage' = pageNumber
  /\ isModalOpen' = TRUE
  /\ modalDocStatus' =
       ModalDocumentAfterRender(ModalShown(TRUE, pageNumber, pdfFile), FALSE,
                                pageNumber # enlargedPage, modalDocStatus)
  /\ UNCHANGED << docVars, layoutMode, paneVars, renderVars, scaleVars,
                  asyncVars, ret, copyVars,
                  effectVars, droppedEdits, cmpVars >>

\* closeEnlargedView without the setEnlargedPage(null) of line 749: the
\* modal closes and keeps its page.
closeEnlargedViewKeepsPage ==
  /\ Rendered
  /\ isModalOpen' = FALSE
  /\ modalDocStatus' = "unmounted"
  /\ UNCHANGED << enlargedPage, docVars, layoutMode, paneVars, renderVars,
                  scaleVars, asyncVars, ret, copyVars,
                  effectVars, droppedEdits, cmpVars >>

\* closeEnlargedView.
closeEnlargedView ==
  /\ Rendered
  /\ enlargedPage' = NoNum
  /\ isModalOpen' = FALSE
  /\ modalDocStatus' = "unmounted"
  /\ UNCHANGED << docVars, layoutMode, paneVars, renderVars, scaleVars,
                  asyncVars, ret, copyVars,
                  effectVars, droppedEdits, cmpVars >>

\* ------------------------------------------------------ pane visibility
\* togglePdfVisibility: the guard reads the flags its closure captured at
\* the last render, the update flips the current flag (prev => !prev).
togglePdfVisibilityBody ==
  IF renderedPdfVisible /\ ~renderedTextVisible
  THEN UNCHANGED pdfVisible
  ELSE pdfVisible' = ~pdfVisible

\* A call of togglePdfVisibility, no render after it.
togglePdfVisibility ==
  /\ togglePdfVisibilityBody
  /\ UNCHANGED << docVars, modalVars, modalDocStatus, layoutMode, textVisible, allTextVisible,
                  renderVars, scaleVars, asyncVars, ret, copyVars,
                  effectVars, droppedEdits, cmpVars >>

\* toggleTextVisibility: as togglePdfVisibility, for the notes column.
toggleTextVisibilityBody ==
  IF renderedTextVisible /\ ~renderedPdfVisible
  THEN UNCHANGED textVisible
  ELSE textVisible' = ~textVisible

\* A call of toggleTextVisibility, no render after it.
toggleTextVisibility ==
  /\ toggleTextVisibilityBody
  /\ UNCHANGED << docVars, modalVars, modalDocStatus, layoutMode, pdfVisible, allTextVisible,
                  renderVars, scaleVars, asyncVars, ret, copyVars,
                  effectVars, droppedEdits, cmpVars >>

\* toggleAllTextVisibility with the guard of the column toggles: hiding the
\* All Text column is refused while the notes column is hidden.
toggleAllTextVisibilityGuarded ==
  /\ IF allTextVisible /\ ~textVisible
     THEN UNCHANGED allTextVisible
     ELSE allTextVisible' = ~allTextVisible
  /\ UNCHANGED << docVars, modalVars, modalDocStatus, layoutMode, pdfVisible, textVisible,
                  renderVars, scaleVars, asyncVars, ret, copyVars,
                  effectVars, droppedEdits, cmpVars >>

\* toggleAllTextVisibility: no guard, and the update reads no captured
\* value (prev => !prev, no useCallback deps).
toggleAllTextVisibility ==
  /\ allTextVisible' = ~allTextVisible
  /\ UNCHANGED << docVars, modalVars, modalDocStatus, layoutMode, pdfVisible, textVisible,
                  renderVars, scaleVars, asyncVars, ret, copyVars,
                  effectVars, droppedEdits, cmpVars >>

\* The <Document> of the PDF column after a render with the file and the
\* column flag given: mounted, which starts a load, or unmounted according
\* to {pdfFile && ... {pdfVisible && ...}} (lines 1086-1089, 1108).
DocumentAfterRender(file, visible, status) ==
  IF file = Null \/ ~visible THEN "unmounted"
  ELSE IF status = "unmounted" THEN "loading"
  ELSE status

\* React re-renders after the updates of one event: the callbacks are
\* re-created over the current flags (useCallback deps, lines 757 and 763)
\* and the <Document> of the PDF column is mounted or unmounted.
Render ==
  /\ ~Rendered
  /\ renderedPdfVisible' = pdfVisible
  /\ renderedTextVisible' = textVisible
  /\ docStatus' = DocumentAfterRender(pdfFile, pdfVisible, docStatus)
  /\ UNCHANGED << docVars, modalVars, modalDocStatus, layoutMode, paneVars, scaleVars,
                  passes, staleSeed, lostEdits, warnLog, ret, copyVars,
                  effectVars, droppedEdits, cmpVars >>

\* ---------------------------------------------------------- layout mode
LayoutModes == {"normal", "comparison", "reading"}

\* setLayoutMode(mode) of the layout mode buttons.
setLayoutMode(mode) ==
  /\ Rendered
  /\ layoutMode' = mode
  /\ UNCHANGED << docVars, modalVars, modalDocStatus, paneVars, renderVars, scaleVars,
                  asyncVars, ret, copyVars,
                  effectVars, droppedEdits, cmpVars >>

\* -------------------------------------------------------- concatenation
\* The template literal `=== Page ${i} ===` of line 777.
PageHeader(i) ==
  << "=", "=", "=", " ", "P", "a", "g", "e", " " >> \o NumToStr(i)
     \o << " ", "=", "=", "=" >>

\* The loop of lines 774-779 from page i on: texts (the array) after it.
\* ocrTexts[i] is undefined, hence falsy, for a key the object lacks.
RECURSIVE ConcatLoop(_, _, _, _)
ConcatLoop(i, n, store, texts) ==
  IF i > n THEN texts
  ELSE IF i \in DOMAIN store /\ store[i] # EmptyStr /\ Trim(store[i]) # EmptyStr
  THEN ConcatLoop(i + 1, n, store,
         Append(texts, PageHeader(i) \o << "\n" >> \o Trim(store[i])))
  ELSE ConcatLoop(i + 1, n, store, texts)

\* The loop with the test `if (pageText)`: a whitespace-only page is pushed.
RECURSIVE ConcatLoopNoTrimTest(_, _, _, _)
ConcatLoopNoTrimTest(i, n, store, texts) ==
  IF i > n THEN texts
  ELSE IF i \in DOMAIN store /\ store[i] # EmptyStr
  THEN ConcatLoopNoTrimTest(i + 1, n, store,
         Append(texts, PageHeader(i) \o << "\n" >> \o Trim(store[i])))
  ELSE ConcatLoopNoTrimTest(i + 1, n, store, texts)

\* getAllConcatenatedText over that loop.
getAllConcatenatedTextNoTrimTest(n, store) ==
  IF n = NoNum \/ n = 0 THEN EmptyStr
  ELSE Join(ConcatLoopNoTrimTest(1, n, store, << >>), << "\n", "\n" >>)

\* getAllConcatenatedText over numPages = n and ocrTexts = store.
getAllConcatenatedText(n, store) ==
  IF n = NoNum \/ n = 0 THEN EmptyStr
  ELSE Join(ConcatLoop(1, n, store, << >>), << "\n", "\n" >>)

\* ---------------------------------------------------------------- scale
\* calculateResponsiveScale without the Math.max(minScale, ...) of line 817.
calculateResponsiveScaleNoMin(pageWidth, width, isModal) ==
  IF pageWidth = 0 \/ width.n = 0
  THEN IF isModal THEN Rat(15, 10) ELSE Rat(8, 10)
  ELSE RatMin(IF isModal THEN Rat(30, 10) ELSE Rat(15, 10),
              RatMul(RatMul(width, IF isModal THEN Rat(85, 100)
                                   ELSE Rat(95, 100)),
                     Rat(1, pageWidth)))

\* calculateResponsiveScale with targetWidthRatio = 0.95 whatever isModal.
calculateResponsiveScaleOneRatio(pageWidth, width, isModal) ==
  IF pageWidth = 0 \/ width.n = 0
  THEN IF isModal THEN Rat(15, 10) ELSE Rat(8, 10)
  ELSE RatMax(Rat(3, 10),
              RatMin(IF isModal THEN Rat(30, 10) ELSE Rat(15, 10),
                     RatMul(RatMul(width, Rat(95, 100)), Rat(1, pageWidth))))

\* calculateResponsiveScale(containerWidth, isModal) of the render whose
\* pdfPageWidth is pageWidth; width is the containerWidth argument, a Rat.
calculateResponsiveScale(pageWidth, width, isModal) ==
  IF pageWidth = 0 \/ width.n = 0
  THEN IF isModal THEN Rat(15, 10) ELSE Rat(8, 10)
  ELSE LET targetWidthRatio == IF isModal THEN Rat(85, 100) ELSE Rat(95, 100)
           availableWidth == RatMul(width, targetWidthRatio)
           calculatedScale == RatMul(availableWidth, Rat(1, pageWidth))
           minScale == Rat(3, 10)
           maxScale == IF isModal THEN Rat(30, 10) ELSE Rat(15, 10)
       IN RatMax(minScale, RatMin(maxScale, calculatedScale))

\* ---------------------------------------------------------- pure helpers
\* Largest width of the helper calls, in steps of 100 px.
MaxWidthSteps == 10
Widths == {100 * w : w \in 0..MaxWidthSteps}

\* Texts of the note stores the concatenation is called on.
NoteTexts == { EmptyStr, << " " >>, << "a" >>, << " ", "a", "\n" >>,
               << "a", " ", "b" >> }

\* Any page count, any note store over the first m pages (m and the page
\* count need not agree) and any page width.
InitHelpers ==
  /\ pdfFile = Null
  /\ numPages \in {NoNum} \cup (0..MaxPages)
  /\ \E m \in 0..MaxPages : ocrTexts \in [1..m -> NoteTexts]
  /\ loading = FALSE
  /\ error = Null
  /\ enlargedPage = NoNum
  /\ isModalOpen = FALSE
  /\ layoutMode = "normal"
  /\ pdfVisible = TRUE
  /\ textVisible = TRUE
  /\ allTextVisible = TRUE
  /\ containerWidth = Px(0)
  /\ modalContainerWidth = Px(0)
  /\ pdfPageWidth \in Widths
  /\ renderedPdfVisible = TRUE
  /\ renderedTextVisible = TRUE
  /\ docStatus = "unmounted"
  /\ modalDocStatus = "unmounted"
  /\ passes = << >>
  /\ staleSeed = FALSE
  /\ lostEdits = FALSE
  /\ warnLog = << >>
  /\ ret = NoCall
  /\ written = << >>
  /\ alerts = << >>
  /\ pendingWrites = 0
  /\ innerWidth = 1300
  /\ mounted = "rendered"
  /\ effectDeps = [pdfVisible |-> TRUE, textVisible |-> TRUE,
                   allTextVisible |-> TRUE, isModalOpen |-> FALSE]
  /\ resizeListeners = 0
  /\ keydownListeners = 0
  /\ bodyOverflow = ""
  /\ modalTimer = NoNum
  /\ pendingTimers = 0
  /\ burstReads = 0
  /\ modalReads = 0
  /\ modalReadWait = NoNum
  /\ droppedEdits = FALSE
  /\ InitComparison

\* A render calls getAllConcatenatedText() (lines 1237 and 1241).
CallConcat ==
  /\ ret' = [op |-> "concat",
             value |-> getAllConcatenatedText(numPages, ocrTexts)]
  /\ UNCHANGED << docVars, modalVars, modalDocStatus, layoutMode, paneVars, renderVars,
                  scaleVars, asyncVars, copyVars,
                  effectVars, droppedEdits, cmpVars >>

\* A render calls calculateResponsiveScale(width, isModal) (lines 1135 and
\* 1309).
CallScale(width, isModal) ==
  /\ ret' = [op |-> "scale", width |-> width, isModal |-> isModal,
             value |-> calculateResponsiveScale(pdfPageWidth, Px(width),
                                                isModal)]
  /\ UNCHANGED << docVars, modalVars, modalDocStatus, layoutMode, paneVars, renderVars,
                  scaleVars, asyncVars, copyVars,
                  effectVars, droppedEdits, cmpVars >>

\* ------------------------------------------------------------ clipboard
\* Largest number of copy actions of one behaviour.
MaxCopies == 2

\* copyAllTextToClipboard with the test of lines 786-789 left out: the text
\* goes to writeText whatever it is.
copyAllTextToClipboardNoEmptyTest ==
  LET allText == getAllConcatenatedText(numPages, ocrTexts) IN
  /\ Rendered
  /\ Len(alerts) + pendingWrites < MaxCopies
  /\ written' = Append(written, allText)
  /\ pendingWrites' = pendingWrites + 1
  /\ UNCHANGED alerts
  /\ UNCHANGED << docVars, modalVars, modalDocStatus, layoutMode, paneVars, renderVars,
                  scaleVars, asyncVars, ret, effectVars,
                  droppedEdits, cmpVars >>

\* copyAllTextToClipboard up to its await (lines 785-792); the callback is
\* the one of the current render, over the current numPages and ocrTexts.
copyAllTextToClipboard ==
  LET allText == getAllConcatenatedText(numPages, ocrTexts) IN
  /\ Rendered
  /\ Len(alerts) + pendingWrites < MaxCopies
  /\ IF Trim(allText) = EmptyStr
     THEN /\ alerts' = Append(alerts, "No text to copy")
          /\ UNCHANGED << written, pendingWrites >>
     ELSE /\ written' = Append(written, allText)
          /\ pendingWrites' = pendingWrites + 1
          /\ UNCHANGED alerts
  /\ UNCHANGED << docVars, modalVars, modalDocStatus, layoutMode, paneVars, renderVars,
                  scaleVars, asyncVars, ret, effectVars,
                  droppedEdits, cmpVars >>

\* The promise of navigator.clipboard.writeText settles, resolved when ok
\* and rejected otherwise, and a suspended copyAllTextToClipboard runs on
\* (lines 794-798).
CopyWriteSettles(ok) ==
  /\ pendingWrites > 0
  /\ pendingWrites' = pendingWrites - 1
  /\ alerts' = Append(alerts, IF ok THEN "All text copied to clipboard!"
                              ELSE "Failed to copy text to clipboard")
  /\ UNCHANGED << docVars, modalVars, modalDocStatus, layoutMode, paneVars, renderVars,
                  scaleVars, asyncVars, ret, written,
                  effectVars, droppedEdits, cmpVars >>

\* Any page count and any note store, as in InitHelpers, no page measured.
InitCopy == InitHelpers /\ pdfPageWidth = 0

\* ------------------------------------------------------------ UI events
\* The Clear button, rendered while a file is selected (lines 970-977).
ClearButton == pdfFile # Null /\ clearPdf

\* The textarea of page pageNumber, rendered in the notes column for the
\* pages 1..numPages (lines 1155, 1174-1190), changes to text.
TextareaChange(pageNumber, text) ==
  /\ pdfFile # Null
  /\ textVisible
  /\ pageNumber \in 1..numPages
  /\ handleOcrTextChange(pageNumber, text)

\* A click on page pageNumber, rendered inside the loaded <Document> for the
\* pages 1..numPages (lines 1115-1130).
PageClick(pageNumber) ==
  /\ pdfFile # Null
  /\ pdfVisible
  /\ docStatus = "loaded"
  /\ pageNumber \in 1..numPages
  /\ openEnlargedView(pageNumber)

\* The close button, the backdrop or the Escape key of the open modal
\* (lines 933, 1279, 1284).
ModalClose == isModalOpen /\ closeEnlargedView

\* A layout mode button, rendered while a file is selected (lines 981-1017).
LayoutButton(mode) == pdfFile # Null /\ setLayoutMode(mode)

\* A click on the button of the PDF column, rendered while a file is
\* selected: "PDF Pages を表示" while the column is hidden (lines 1028-1041),
\* the button of its header while it is shown (lines 1093-1106), disabled
\* while the notes column is hidden.  The onClick runs togglePdfVisibility
\* and React renders before the next event.
PdfToggleButton ==
  /\ pdfFile # Null
  /\ Rendered
  /\ ~(pdfVisible /\ ~textVisible)
  /\ togglePdfVisibilityBody
  /\ renderedPdfVisible' = pdfVisible'
  /\ docStatus' = DocumentAfterRender(pdfFile, pdfVisible', docStatus)
  /\ UNCHANGED << docVars, modalVars, modalDocStatus, layoutMode, textVisible, allTextVisible,
                  renderedTextVisible, scaleVars, passes, staleSeed, warnLog,
                  lostEdits, ret, copyVars, effectVars, droppedEdits, cmpVars >>

\* A click on the button of the notes column: "OCR Text を表示" while the
\* column is hidden (lines 1042-1055), the button of its header while it is
\* shown (lines 1159-1172), disabled while the PDF column is hidden.
TextToggleButton ==
  /\ pdfFile # Null
  /\ Rendered
  /\ ~(textVisible /\ ~pdfVisible)
  /\ toggleTextVisibilityBody
  /\ renderedTextVisible' = textVisible'
  /\ UNCHANGED << docVars, modalVars, modalDocStatus, layoutMode, pdfVisible, allTextVisible,
                  renderedPdfVisible, scaleVars, asyncVars, ret, copyVars,
                  effectVars, droppedEdits, cmpVars >>

\* A click on the button of the All Text column: "All Text を表示" while the
\* column is hidden (lines 1056-1069), the button of its header while it is
\* shown (lines 1220-1228).
AllTextToggleButton == pdfFile # Null /\ Rendered /\ toggleAllTextVisibility

\* A click on the Copy button of the All Text column, rendered while a file
\* is selected and the column is shown (lines 1086, 1203, 1208-1219).
CopyButton == pdfFile # Null /\ allTextVisible /\ copyAllTextToClipboard

\* A click on the backdrop of the modal (line 1279).
BackdropClick == ModalRendered /\ closeEnlargedView

\* A click on the close button (line 1284): its onClick runs
\* closeEnlargedView, the click bubbles to the backdrop, whose onClick runs
\* it again with the same two constant updates.
CloseButtonClick == ModalRendered /\ closeEnlargedView

\* A click on the page content with the stopPropagation of line 1303 left
\* out: the click bubbles to the backdrop.
ModalContentClickBubbles == ModalRendered /\ closeEnlargedView

\* A click on the page content of the modal (lines 1301-1303): the onClick
\* stops the propagation, no other handler runs.
ModalContentClick == ModalRendered /\ Rendered /\ UNCHANGED vars

\* The Escape key is pressed.  The keydown listener of lines 932-936 is on
\* the document while isModalOpen (lines 938-939), whether or not the modal
\* is in the DOM.
EscapeKey ==
  IF isModalOpen THEN closeEnlargedView ELSE Rendered /\ UNCHANGED vars

\* -------------------------------------------------------------- effects
\* The widths of the window (window.innerWidth) of the model: one below the
\* lg breakpoint, where innerWidth - 100 is 0, and one above it.
Viewports == {100, 1300}

\* The delay of the setTimeout of line 858, in ms.
SettleDelay == 100

\* Largest number of width reads by handleResize between two passages of
\* time.
MaxBurst == 2

\* pdfContainerRef.current is set: the div of the PDF column is in the DOM
\* of the last render, under {pdfFile && ... {pdfVisible && ...}}.
PdfContainerMounted == pdfFile # Null /\ renderedPdfVisible

\* modalContainerRef.current is set: the modal is in the DOM.
ModalContainerMounted == ModalRendered

\* visibleColumns of getGridClass, over the flags of the last render.
VisibleColumns ==
  (IF renderedPdfVisible THEN 1 ELSE 0) + (IF renderedTextVisible THEN 1 ELSE 0)
    + (IF allTextVisible THEN 1 ELSE 0)

\* The width of a `container` in a window w wide: the largest breakpoint
\* not above w, the window's width below the first breakpoint.
ContainerMaxWidth(w) ==
  IF w >= 1536 THEN 1536 ELSE IF w >= 1280 THEN 1280 ELSE IF w >= 1024 THEN 1024
  ELSE IF w >= 768 THEN 768 ELSE IF w >= 640 THEN 640 ELSE w

\* getBoundingClientRect().width of the PDF column in a window w wide: the
\* `container mx-auto px-4` less its padding, split into the equal columns
\* (1fr each) of getGridClass with gap-8 from the lg breakpoint on; the
\* width is a fraction of a pixel where the division leaves one.
ContainerBoxWidth(w) ==
  LET content == ContainerMaxWidth(w) - 32
      n == VisibleColumns
  IN IF w >= 1024 /\ n > 1 THEN Lowest(Rat(content - 32 * (n - 1), n))
     ELSE Px(content)

\* The scale of the pages of the PDF column (line 1135).
SourcePageScale == calculateResponsiveScale(pdfPageWidth, containerWidth, FALSE)

\* The scale of the page of the modal with the tracked width passed as it
\* is: calculateResponsiveScale(modalContainerWidth, true).
ModalPageScaleNoFallback ==
  calculateResponsiveScale(pdfPageWidth, modalContainerWidth, TRUE)

\* The scale of the page of the modal (line 1309); 0 || x is x.
ModalPageScale ==
  calculateResponsiveScale(pdfPageWidth,
                           IF modalContainerWidth.n # 0
                           THEN modalContainerWidth
                           ELSE Px(innerWidth - 100),
                           TRUE)

\* Largest number of reads of the width of the modal's div in one
\* behaviour.
MaxModalReads == 2

\* The width of n characters of a message shown in place of a document or
\* a page, at 8 px a character.
MessageWidth(n) == 8 * n

\* The widths of a message of n characters whose longest word has k: min
\* when every line is broken, max on one line.
Message(k, n) == [min |-> Px(MessageWidth(k)), max |-> Px(MessageWidth(n))]

\* The narrowest and the widest the modal's <Document> (lines 1305-1312)
\* lays out what it holds: react-pdf's "Loading PDF…" while the file loads
\* and its "Failed to load PDF file." after a failed load, the loading
\* element of line 1310 while the page loads and react-pdf's "Failed to
\* load the page." when it cannot, and the drawn page, as wide as the page
\* at the scale of the last render (line 1309), which does not shrink.
ModalContentWidth ==
  CASE modalDocStatus = "drawn" ->
         LET page == RatMul(Px(FileInfo(pdfFile).width), ModalPageScale)
         IN [min |-> page, max |-> page]
    [] modalDocStatus = "loaded" -> Message(8, 24)
    [] modalDocStatus = "failed" -> Message(6, 24)
    [] modalDocStatus = "pageFailed" -> Message(6, 24)
    [] OTHER -> Message(7, 12)

\* getBoundingClientRect().width of the modal's div (line 1281) at the
\* moment it is read in a window w wide: a flex item of the backdrop, whose
\* p-4 leaves it w - 32; it is as wide as its content on one line with the
\* p-4 of the div around it (line 1302) where that fits, shrinks to what the
\* backdrop leaves but not below its content broken at every word, and
\* never exceeds max-w-7xl (80rem).
ModalBoxWidth(w) ==
  LET content == ModalContentWidth
  IN RatMin(Px(1280),
            RatMax(RatAdd(content.min, Px(32)),
                   RatMin(RatAdd(content.max, Px(32)), Px(w - 32))))

\* react-pdf has settled the load of the file of the modal's <Document>,
\* which has no onLoadSuccess and no onLoadError (line 1305): the error
\* message, or the <Page>, which shows its loading element (line 1310),
\* replaces the loading message, and no state of the component changes.
ModalDocumentSettles ==
  /\ modalDocStatus = "loading"
  /\ modalDocStatus' = IF FileInfo(pdfFile).corrupt THEN "failed" ELSE "loaded"
  /\ UNCHANGED << docVars, modalVars, layoutMode, paneVars, renderVars,
                  scaleVars, asyncVars, ret, copyVars, effectVars,
                  droppedEdits, cmpVars >>

\* react-pdf has settled the load of the page of the modal's <Page>
\* (lines 1306-1311): the page is drawn in place of the loading element, or
\* the error message is shown when the document has no such page or its
\* getPage rejects.
ModalPageSettles ==
  /\ modalDocStatus = "loaded"
  /\ modalDocStatus' =
       IF /\ enlargedPage \in 1..FileInfo(pdfFile).pages
          /\ enlargedPage \notin FileInfo(pdfFile).badPage
       THEN "drawn" ELSE "pageFailed"
  /\ UNCHANGED << docVars, modalVars, layoutMode, paneVars, renderVars,
                  scaleVars, asyncVars, ret, copyVars, effectVars,
                  droppedEdits, cmpVars >>

\* updateContainerWidth in a window w wide.
updateContainerWidth(w) ==
  containerWidth' = IF PdfContainerMounted THEN ContainerBoxWidth(w)
                    ELSE containerWidth

\* updateModalContainerWidth in a window w wide; modalReadWait records the time left of the
\* settle timer at the first read since the modal opened, modalReads counts
\* the reads.
updateModalContainerWidth(w) ==
  IF ModalContainerMounted
  THEN /\ modalContainerWidth' = ModalBoxWidth(w)
       /\ modalReads' = modalReads + 1
       /\ modalReadWait' = IF modalReadWait # NoNum THEN modalReadWait
                           ELSE IF modalTimer = NoNum THEN 0 ELSE modalTimer
  ELSE UNCHANGED << modalContainerWidth, modalReads, modalReadWait >>

\* The dependency values of the effects in the current state.
CurrentDeps ==
  [pdfVisible |-> pdfVisible, textVisible |-> textVisible,
   allTextVisible |-> allTextVisible, isModalOpen |-> isModalOpen]

\* The component is mounted and the effects of its last render have run:
\* React runs the effects of a render before it handles the next event.
EffectsFlushed ==
  mounted = "mounted" /\ Rendered /\ effectDeps = CurrentDeps

\* The cleanup of the last run of the resize effect (lines 847-849).
ResizeEffectCleanup(n) == n - 1

\* The resize effect without its cleanup: the listener of the last run
\* stays registered.
ResizeEffectNoCleanup(first) ==
  /\ updateContainerWidth(innerWidth)
  /\ resizeListeners' = resizeListeners + 1

\* The resize effect (lines 837-850) runs, for the first time or after a
\* change of a column flag: the cleanup of its last run, then its body.
ResizeEffect(first) ==
  /\ updateContainerWidth(innerWidth)
  /\ resizeListeners' =
       (IF first THEN resizeListeners
        ELSE ResizeEffectCleanup(resizeListeners)) + 1

\* The modal timer effect without the cleanup of line 859: the timer of its
\* last run is left as it is.
ModalTimerEffectNoCleanup(timer) == timer

\* The cleanup of the last run of the modal timer effect (line 859), which
\* returned one only if the modal was open, on the timer: clearTimeout.
ModalTimerEffectCleanup(timer) == IF effectDeps.isModalOpen THEN NoNum ELSE timer

\* The number of pending callbacks a cleanup removes that leaves the timer
\* after where it was before: clearTimeout of a timer that has fired
\* removes none.
TimersCleared(before, after) ==
  IF before # NoNum /\ after = NoNum THEN 1 ELSE 0

\* The modal timer effect (lines 853-861) runs: the cleanup of its last
\* run, then its body.
ModalTimerEffect(first) ==
  /\ modalTimer' = IF isModalOpen THEN SettleDelay
                   ELSE IF first THEN modalTimer
                   ELSE ModalTimerEffectCleanup(modalTimer)
  /\ pendingTimers' =
       pendingTimers
         - (IF first THEN 0
            ELSE TimersCleared(modalTimer, ModalTimerEffectCleanup(modalTimer)))
         + (IF isModalOpen THEN 1 ELSE 0)
  /\ modalReadWait' = NoNum

\* The cleanup of the last run of the Escape effect (lines 946-949) on the
\* number of keydown listeners: its handler is registered only if the modal
\* was open in that run.
EscapeEffectCleanup(n) == IF effectDeps.isModalOpen THEN n - 1 ELSE n

\* The Escape effect (lines 931-950) runs: the cleanup of its last run,
\* then its body.
EscapeEffect(first) ==
  /\ keydownListeners' =
       (IF first THEN keydownListeners
        ELSE EscapeEffectCleanup(keydownListeners))
         + (IF isModalOpen THEN 1 ELSE 0)
  /\ bodyOverflow' = IF isModalOpen THEN "hidden" ELSE "unset"

\* React runs the effects of the last render: all three after the first
\* render, afterwards the resize effect when a column flag changed and the
\* other two when isModalOpen changed (the callbacks among the dependencies
\* never change).
RunEffects ==
  LET first == mounted = "rendered"
      panes == \/ effectDeps.pdfVisible # pdfVisible
               \/ effectDeps.textVisible # textVisible
               \/ effectDeps.allTextVisible # allTextVisible
      modal == effectDeps.isModalOpen # isModalOpen
  IN /\ mounted # "unmounted"
     /\ Rendered
     /\ first \/ panes \/ modal
     /\ IF first \/ panes THEN ResizeEffect(first)
        ELSE UNCHANGED << containerWidth, resizeListeners >>
     /\ IF first \/ modal
        THEN ModalTimerEffect(first) /\ EscapeEffect(first)
        ELSE UNCHANGED << modalTimer, pendingTimers, modalReadWait,
                          keydownListeners, bodyOverflow >>
     /\ mounted' = "mounted"
     /\ effectDeps' = CurrentDeps
     /\ UNCHANGED << docVars, modalVars, modalDocStatus, layoutMode, paneVars, renderVars,
                     modalContainerWidth, pdfPageWidth, asyncVars, ret,
                     copyVars, innerWidth, burstReads, modalReads,
                     droppedEdits, cmpVars >>

\* The window is resized to the width w: every registered handleResize
\* (lines 838-841) runs updateContainerWidth and updateModalContainerWidth.
WindowResize(w) ==
  /\ EffectsFlushed
  /\ burstReads < MaxBurst
  /\ ModalContainerMounted => modalReads + pendingTimers < MaxModalReads
  /\ innerWidth' = w
  /\ IF resizeListeners > 0
     THEN /\ updateContainerWidth(w)
          /\ updateModalContainerWidth(w)
          /\ burstReads' = burstReads
                             + (IF PdfContainerMounted THEN resizeListeners
                                ELSE 0)
     ELSE UNCHANGED << containerWidth, modalContainerWidth, modalReads,
                       modalReadWait, burstReads >>
  /\ UNCHANGED << docVars, modalVars, modalDocStatus, layoutMode, paneVars, renderVars,
                  pdfPageWidth, asyncVars, ret, copyVars, mounted, effectDeps,
                  resizeListeners, keydownListeners, bodyOverflow, modalTimer,
                  pendingTimers,
                  droppedEdits, cmpVars >>

\* 50 ms pass without an event.
TimePasses ==
  /\ EffectsFlushed
  /\ burstReads' = 0
  /\ modalTimer' = IF modalTimer > 0 THEN modalTimer - 50 ELSE modalTimer
  /\ UNCHANGED << pendingTimers, modalReads >>
  /\ UNCHANGED << docVars, modalVars, modalDocStatus, layoutMode, paneVars, renderVars,
                  scaleVars, asyncVars, ret, copyVars, innerWidth, mounted,
                  effectDeps, resizeListeners, keydownListeners, bodyOverflow,
                  modalReadWait, droppedEdits, cmpVars >>

\* The timer of line 856 is due and its callback runs
\* updateModalContainerWidth.
TimerFires ==
  /\ EffectsFlushed
  /\ modalTimer = 0
  /\ modalTimer' = NoNum
  /\ pendingTimers' = pendingTimers - 1
  /\ updateModalContainerWidth(innerWidth)
  /\ UNCHANGED << docVars, modalVars, modalDocStatus, layoutMode, paneVars, renderVars,
                  containerWidth, pdfPageWidth, asyncVars, ret, copyVars,
                  innerWidth, mounted, effectDeps, resizeListeners,
                  keydownListeners, bodyOverflow, burstReads, droppedEdits, cmpVars >>

\* React unmounts the component, its <Document> with it, and runs the
\* cleanup of the last run of every effect.  A suspended pass is not
\* cancelled.
Unmount ==
  /\ EffectsFlushed
  /\ mounted' = "unmounted"
  /\ docStatus' = "unmounted"
  /\ modalDocStatus' = "unmounted"
  /\ resizeListeners' = ResizeEffectCleanup(resizeListeners)
  /\ modalTimer' = ModalTimerEffectCleanup(modalTimer)
  /\ pendingTimers' =
       pendingTimers
         - TimersCleared(modalTimer, ModalTimerEffectCleanup(modalTimer))
  /\ keydownListeners' = EscapeEffectCleanup(keydownListeners)
  /\ bodyOverflow' = "unset"
  /\ UNCHANGED << docVars, modalVars, layoutMode, paneVars, renderVars,
                  scaleVars, passes, staleSeed, warnLog, lostEdits, ret,
                  copyVars, innerWidth, effectDeps, burstReads, modalReads,
                  modalReadWait, droppedEdits, cmpVars >>

\* -------------------------------------------------------- editor sizing
\* text.split('\n').length
SplitLength(text) == 1 + Cardinality({j \in DOMAIN text : text[j] = "\n"})

\* Math.ceil(a / b) for a >= 0 and b > 0.
Ceil(a, b) == (a + b - 1) \div b

\* Math.max on integers.
Max(a, b) == IF a >= b THEN a ELSE b

\* ocrTexts[pageNumber] || ''
TextOf(store, pageNumber) ==
  IF pageNumber \in DOMAIN store THEN store[pageNumber] ELSE EmptyStr

\* The character count shown above the textarea of a page:
\* ocrTexts[pageNumber]?.length || 0.
CharacterCount(store, pageNumber) ==
  IF pageNumber \in DOMAIN store THEN Len(store[pageNumber]) ELSE 0

\* getTextareaHeight(pageNumber) of the render with layoutMode = mode and
\* ocrTexts = store: a class name.
getTextareaHeight(mode, store, pageNumber) ==
  IF mode = "normal" THEN "h-64"
  ELSE IF mode = "comparison" THEN "h-650"
  ELSE IF mode = "reading"
  THEN LET text == TextOf(store, pageNumber) IN
       IF Trim(text) = EmptyStr THEN "min-h-32"
       ELSE LET lineCount == SplitLength(text)
                estimatedLines == Max(lineCount, Ceil(Len(text), 60))
                totalLines == Max(4, estimatedLines + 1)
            IN IF totalLines <= 8 THEN "min-h-32"
               ELSE IF totalLines <= 16 THEN "min-h-48"
               ELSE IF totalLines <= 24 THEN "min-h-64"
               ELSE IF totalLines <= 32 THEN "min-h-80"
               ELSE "min-h-96"
  ELSE "h-64"

\* The {} getTextareaStyle returns outside reading mode.
NoStyle == [height |-> Null, minHeight |-> NoNum]

\* getTextareaStyle(pageNumber) of the same render; minHeight in px.
getTextareaStyle(mode, store, pageNumber) ==
  IF mode = "reading"
  THEN LET text == TextOf(store, pageNumber)
           lineCount == Max(4, SplitLength(text) + 1)
           estimatedHeight == Max(128, lineCount * 24)
       IN [height |-> "auto", minHeight |-> estimatedHeight]
  ELSE NoStyle

\* The length in px a height class stands for: 0.25rem = 4px per unit of
\* the spacing scale, and the px of theme.extend.height of
\* tailwind.config.js for h-650.
ClassPx(class) ==
  CASE class = "h-64" -> 256
    [] class = "h-650" -> 650
    [] class = "min-h-32" -> 128
    [] class = "min-h-48" -> 192
    [] class = "min-h-64" -> 256
    [] class = "min-h-80" -> 320
    [] class = "min-h-96" -> 384

\* The min-height of the textarea of lines 1183-1193, in px: the one of
\* style={...} where it sets one, as an inline style overrides a class, and
\* else the one of the min-h- class, none (0) under an h- class.
EffectiveMinHeight(class, style) ==
  IF style.minHeight # NoNum THEN style.minHeight
  ELSE IF class \in {"h-64", "h-650"} THEN 0
  ELSE ClassPx(class)

\* The height of the textarea in px where a class fixes it: under an h-
\* class and no inline height; NoNum where the height is automatic.
FixedHeight(class, style) ==
  IF style.height = Null /\ class \in {"h-64", "h-650"} THEN ClassPx(class)
  ELSE NoNum

\* n lines of w characters "a" each: w characters, n - 1 times a line break
\* and w characters more.
RECURSIVE Lines(_, _)
Lines(n, w) ==
  IF n <= 1 THEN [j \in 1..w |-> "a"]
  ELSE Lines(n - 1, w) \o << "\n" >> \o [j \in 1..w |-> "a"]

\* Texts of the editor of page 1: none, a blank, one short line, long
\* lines the editor wraps, and many short lines.
SizingTexts ==
  { EmptyStr, << " " >>, Lines(1, 1), Lines(1, 600), Lines(1, 1200),
    Lines(3, 100), Lines(5, 1), Lines(10, 1), Lines(16, 1), Lines(40, 1),
    Lines(40, 0) }

\* The one-page document "s" selected, loaded and extracted in a window
\* 1300 wide, its columns never measured, and a text typed or pasted into
\* the editor of page 1.
InitSizing ==
  /\ pdfFile = "s"
  /\ numPages = 1
  /\ \E text \in SizingTexts : ocrTexts = << text >>
  /\ loading = FALSE
  /\ error = Null
  /\ enlargedPage = NoNum
  /\ isModalOpen = FALSE
  /\ layoutMode = "normal"
  /\ pdfVisible = TRUE
  /\ textVisible = TRUE
  /\ allTextVisible = TRUE
  /\ containerWidth = Px(0)
  /\ modalContainerWidth = Px(0)
  /\ pdfPageWidth = FileInfo("s").width
  /\ renderedPdfVisible = TRUE
  /\ renderedTextVisible = TRUE
  /\ docStatus = "loaded"
  /\ modalDocStatus = "unmounted"
  /\ passes = << >>
  /\ staleSeed = FALSE
  /\ lostEdits = FALSE
  /\ warnLog = << >>
  /\ ret = NoCall
  /\ written = << >>
  /\ alerts = << >>
  /\ pendingWrites = 0
  /\ innerWidth = 1300
  /\ mounted = "mounted"
  /\ effectDeps = CurrentDeps
  /\ resizeListeners = 1
  /\ keydownListeners = 0
  /\ bodyOverflow = "unset"
  /\ modalTimer = NoNum
  /\ pendingTimers = 0
  /\ burstReads = 0
  /\ modalReads = 0
  /\ modalReadWait = NoNum
  /\ droppedEdits = FALSE
  /\ InitComparison

\* A render of the notes column calls getTextareaStyle(pageNumber) and
\* getTextareaHeight(pageNumber) for the textarea of a page (lines 1187 and
\* 1188).
CallTextareaSizing(pageNumber) ==
  /\ pdfFile # Null
  /\ textVisible
  /\ pageNumber \in 1..numPages
  /\ ret' = [op |-> "sizing", pageNumber |-> pageNumber,
             class |-> getTextareaHeight(layoutMode, ocrTexts, pageNumber),
             style |-> getTextareaStyle(layoutMode, ocrTexts, pageNumber)]
  /\ UNCHANGED << docVars, modalVars, modalDocStatus, layoutMode, paneVars, renderVars,
                  scaleVars, asyncVars, copyVars, effectVars, droppedEdits, cmpVars >>

\* ------------------------------------------- components/PDFNotebook.tsx
\* The component of src/components/PDFNotebook.tsx has the state pdfFile,
\* numPages, ocrTexts, loading, error and layoutMode; its onDocumentLoadError,
\* onFileChange, clearPdf and handleOcrTextChange are those above, line for
\* line.  It has no column toggles, no modal and no extraction pass.

\* onDocumentLoadSuccess({numPages: n}) of PDFNotebook.tsx (lines 29-39).
Tsx_onDocumentLoadSuccess(n) ==
  /\ numPages' = n
  /\ loading' = FALSE
  /\ error' = Null
  /\ ocrTexts' = InitialTexts(n)
  /\ UNCHANGED << pdfFile, modalVars, modalDocStatus, layoutMode, paneVars, renderVars,
                  scaleVars, passes, staleSeed, lostEdits, warnLog, ret, copyVars,
                  effectVars, droppedEdits, cmpVars >>

\* react-pdf has opened the file of the mounted <Document> and calls
\* onLoadSuccess with its page count.
Tsx_DocumentLoaded ==
  /\ docStatus = "loading"
  /\ ~FileInfo(pdfFile).corrupt
  /\ docStatus' = "loaded"
  /\ Tsx_onDocumentLoadSuccess(FileInfo(pdfFile).pages)

\* The <Document> is the element of the first branch of
\* {layoutMode === 'reading' ? <Document> : <>...<Document>...</>} in reading
\* mode and an element inside the fragment of the second branch otherwise
\* (lines 205-292): a switch between the branches unmounts the one
\* <Document> and mounts the other, which loads the file.
Tsx_Remounts(mode) ==
  pdfFile # Null /\ (layoutMode = "reading") # (mode = "reading")

\* setLayoutMode(mode) of a layout mode button (lines 158, 168, 178) and
\* the render that follows it.
Tsx_setLayoutMode(mode) ==
  /\ layoutMode' = mode
  /\ docStatus' = IF Tsx_Remounts(mode) THEN "loading" ELSE docStatus
  /\ UNCHANGED << docVars, modalVars, modalDocStatus, paneVars, renderVars, scaleVars,
                  passes, staleSeed, lostEdits, warnLog, ret, copyVars,
                  effectVars, droppedEdits, cmpVars >>

\* A layout mode button, rendered while a file is selected (lines 151-189).
Tsx_LayoutButton(mode) == pdfFile # Null /\ Tsx_setLayoutMode(mode)

\* The textarea of page pageNumber changes to text.  In reading mode the
\* textareas are children of the <Document> (lines 207-255), which renders
\* them once it has loaded the file; in the other modes they are in the
\* column beside it (lines 299-319).
Tsx_TextareaChange(pageNumber, text) ==
  /\ pdfFile # Null
  /\ layoutMode = "reading" => docStatus = "loaded"
  /\ pageNumber \in 1..numPages
  /\ handleOcrTextChange(pageNumber, text)

\* ------------------------------------------ two-document comparison
\* The component with the view modes 'single' and 'comparison' (lines
\* 21-614) has the single document and its note store, as above but for the
\* extraction pass, the layout modes, the column flags and the measured
\* widths, and the two documents of the comparison.

\* The view modes.
ViewModes == {"single", "comparison"}

\* The variables of the later component this one does not have.
Vm_Later ==
  << layoutMode, paneVars, renderVars, scaleVars, passes, staleSeed, warnLog,
     lostEdits, ret, copyVars >>

\* What the callbacks of the documents other than onFileChange and clearPdf
\* leave alone besides the documents: the modal with its <Document>, which
\* is rendered in both view modes (lines 569-609), and the effect.
Vm_Rest == << Vm_Later, modalVars, modalDocStatus, effectVars, droppedEdits >>

\* The <Document> of one column after a render: it is in the tree when shown
\* (the view mode of its branch and a file, lines 371, 454, 461, 503), loads its
\* file when it is mounted or gets another file, and keeps its state
\* otherwise.
DocumentStatus(shown, status, newFile) ==
  IF ~shown THEN "unmounted"
  ELSE IF status = "unmounted" \/ newFile THEN "loading"
  ELSE status

\* onDocumentLoadSuccess({numPages: n}) of lines 45-55.
Vm_onDocumentLoadSuccess(n) ==
  /\ numPages' = n
  /\ loading' = FALSE
  /\ error' = Null
  /\ ocrTexts' = InitialTexts(n)
  /\ UNCHANGED << pdfFile, cmpVars, Vm_Rest >>

\* onDocumentLoadError of lines 57-61.
Vm_onDocumentLoadError ==
  /\ loading' = FALSE
  /\ error' = "Failed to load PDF. Please make sure the file is a valid PDF."
  /\ UNCHANGED << pdfFile, numPages, ocrTexts, cmpVars, Vm_Rest >>

\* onDocument1LoadSuccess({numPages: n}) of lines 64-68.
onDocument1LoadSuccess(n) ==
  /\ numPages1' = n
  /\ loading1' = FALSE
  /\ error1' = Null
  /\ UNCHANGED << pdfFile1, viewMode, pdf2Vars, docStatus2, docVars, Vm_Rest >>

\* onDocument1LoadError of lines 70-74.
onDocument1LoadError ==
  /\ loading1' = FALSE
  /\ error1' = "Failed to load PDF 1. Please make sure the file is a valid PDF."
  /\ UNCHANGED << pdfFile1, numPages1, viewMode, pdf2Vars, docStatus2,
                  docVars, Vm_Rest >>

\* onDocument2LoadSuccess({numPages: n}) of lines 76-80.
onDocument2LoadSuccess(n) ==
  /\ numPages2' = n
  /\ loading2' = FALSE
  /\ error2' = Null
  /\ UNCHANGED << pdfFile2, viewMode, pdf1Vars, docStatus1, docVars, Vm_Rest >>

\* onDocument2LoadError of lines 82-86.
onDocument2LoadError ==
  /\ loading2' = FALSE
  /\ error2' = "Failed to load PDF 2. Please make sure the file is a valid PDF."
  /\ UNCHANGED << pdfFile2, numPages2, viewMode, pdf1Vars, docStatus1,
                  docVars, Vm_Rest >>

\* onFileChange of lines 88-102 with event.target.files[0] = file, and the
\* render that follows it: the <Document> of the column (line 371) and the
\* one of the modal (line 598) get the new file.
Vm_onFileChange(file) ==
  /\ IF file = Null
     THEN UNCHANGED << docVars, docStatus, modalDocStatus, droppedEdits >>
     ELSE IF FileInfo(file).type = PdfType
     THEN /\ pdfFile' = file
          /\ loading' = TRUE
          /\ error' = Null
          /\ numPages' = NoNum
          /\ ocrTexts' = EmptyTexts
          /\ docStatus' = DocumentStatus(viewMode = "single", docStatus, TRUE)
          /\ modalDocStatus' =
               ModalDocumentAfterRender(ModalShown(isModalOpen, enlargedPage, file),
                                        TRUE, FALSE, modalDocStatus)
          /\ droppedEdits' = HoldsEdit(ocrTexts)
     ELSE /\ loading' = FALSE
          /\ error' = "Please select a valid PDF file."
          /\ UNCHANGED << pdfFile, numPages, ocrTexts, docStatus,
                          modalDocStatus, droppedEdits >>
  /\ UNCHANGED << cmpVars, modalVars, effectVars, Vm_Later >>

\* onFile1Change of lines 104-117, and the render that follows it.
onFile1Change(file) ==
  /\ IF file = Null
     THEN UNCHANGED << pdf1Vars, docStatus1 >>
     ELSE IF FileInfo(file).type = PdfType
     THEN /\ pdfFile1' = file
          /\ loading1' = TRUE
          /\ error1' = Null
          /\ numPages1' = NoNum
          /\ docStatus1' =
               DocumentStatus(viewMode = "comparison", docStatus1, TRUE)
     ELSE /\ loading1' = FALSE
          /\ error1' = "Please select a valid PDF file."
          /\ UNCHANGED << pdfFile1, numPages1, docStatus1 >>
  /\ UNCHANGED << viewMode, pdf2Vars, docStatus2, docVars, docStatus, Vm_Rest >>

\* onFile2Change of lines 119-132, and the render that follows it.
onFile2Change(file) ==
  /\ IF file = Null
     THEN UNCHANGED << pdf2Vars, docStatus2 >>
     ELSE IF FileInfo(file).type = PdfType
     THEN /\ pdfFile2' = file
          /\ loading2' = TRUE
          /\ error2' = Null
          /\ numPages2' = NoNum
          /\ docStatus2' =
               DocumentStatus(viewMode = "comparison", docStatus2, TRUE)
     ELSE /\ loading2' = FALSE
          /\ error2' = "Please select a valid PDF file."
          /\ UNCHANGED << pdfFile2, numPages2, docStatus2 >>
  /\ UNCHANGED << viewMode, pdf1Vars, docStatus1, docVars, docStatus, Vm_Rest >>

\* clearPdf of lines 134-140, and the render that follows it: without a
\* file neither the column (line 371) nor the modal (line 569) is rendered.
Vm_clearPdf ==
  /\ pdfFile' = Null
  /\ numPages' = NoNum
  /\ ocrTexts' = EmptyTexts
  /\ loading' = FALSE
  /\ error' = Null
  /\ docStatus' = "unmounted"
  /\ modalDocStatus' = "unmounted"
  /\ droppedEdits' = FALSE
  /\ UNCHANGED << cmpVars, modalVars, effectVars, Vm_Later >>

\* openEnlargedView(pageNumber) of lines 168-171, and the render that
\* follows it.
Vm_openEnlargedView(pageNumber) ==
  /\ enlargedPage' = pageNumber
  /\ isModalOpen' = TRUE
  /\ modalDocStatus' =
       ModalDocumentAfterRender(ModalShown(TRUE, pageNumber, pdfFile), FALSE,
                                pageNumber # enlargedPage, modalDocStatus)
  /\ UNCHANGED << docVars, docStatus, cmpVars, effectVars, droppedEdits,
                  Vm_Later >>

\* closeEnlargedView of lines 173-176, and the render that follows it.
Vm_closeEnlargedView ==
  /\ enlargedPage' = NoNum
  /\ isModalOpen' = FALSE
  /\ modalDocStatus' = "unmounted"
  /\ UNCHANGED << docVars, docStatus, cmpVars, effectVars, droppedEdits,
                  Vm_Later >>

\* clearPdf1 of lines 142-147, and the render that follows it.
clearPdf1 ==
  /\ pdfFile1' = Null
  /\ numPages1' = NoNum
  /\ loading1' = FALSE
  /\ error1' = Null
  /\ docStatus1' = "unmounted"
  /\ UNCHANGED << viewMode, pdf2Vars, docStatus2, docVars, docStatus, Vm_Rest >>

\* clearPdf2 of lines 149-154, and the render that follows it.
clearPdf2 ==
  /\ pdfFile2' = Null
  /\ numPages2' = NoNum
  /\ loading2' = FALSE
  /\ error2' = Null
  /\ docStatus2' = "unmounted"
  /\ UNCHANGED << viewMode, pdf1Vars, docStatus1, docVars, docStatus, Vm_Rest >>

\* clearComparison of lines 156-159: clearPdf1() and clearPdf2() in one
\* event, whose eight updates React applies in one render.
clearComparison ==
  /\ pdfFile1' = Null
  /\ numPages1' = NoNum
  /\ loading1' = FALSE
  /\ error1' = Null
  /\ docStatus1' = "unmounted"
  /\ pdfFile2' = Null
  /\ numPages2' = NoNum
  /\ loading2' = FALSE
  /\ error2' = Null
  /\ docStatus2' = "unmounted"
  /\ UNCHANGED << viewMode, docVars, docStatus, Vm_Rest >>

\* setViewMode(mode) of a mode button (lines 211, 221), and the render that
\* follows it: the branch of the other mode leaves the tree with its
\* <Document>s, the branch of mode enters it (lines 371, 454).
setViewMode(mode) ==
  /\ viewMode' = mode
  /\ docStatus' = DocumentStatus(mode = "single" /\ pdfFile # Null,
                                 docStatus, FALSE)
  /\ docStatus1' = DocumentStatus(mode = "comparison" /\ pdfFile1 # Null,
                                  docStatus1, FALSE)
  /\ docStatus2' = DocumentStatus(mode = "comparison" /\ pdfFile2 # Null,
                                  docStatus2, FALSE)
  /\ UNCHANGED << docVars, pdf1Vars, pdf2Vars, Vm_Rest >>

\* The files of SpecCompare: the one-page document "s", the corrupt "d" and
\* "e", which is not a PDF.
CompareFiles == {"s", "d", "e"}

\* The file input of the single document, rendered in single mode (lines
\* 234-246).
Vm_FileInput(file) == viewMode = "single" /\ Vm_onFileChange(file)

\* react-pdf has opened the file of the mounted <Document> of the single
\* document.
Vm_DocumentLoaded ==
  /\ docStatus = "loading"
  /\ ~FileInfo(pdfFile).corrupt
  /\ docStatus' = "loaded"
  /\ Vm_onDocumentLoadSuccess(FileInfo(pdfFile).pages)

\* react-pdf could not open the file of the single document.
Vm_DocumentFailed ==
  /\ docStatus = "loading"
  /\ FileInfo(pdfFile).corrupt
  /\ docStatus' = "failed"
  /\ Vm_onDocumentLoadError

\* react-pdf has settled the load of the file of the modal's <Document>,
\* which has no callbacks (line 598).
Vm_ModalDocumentSettles == ModalDocumentSettles

\* react-pdf has settled the load of the page of the modal's <Page> (lines
\* 599-604).
Vm_ModalPageSettles == ModalPageSettles

\* A click on page pageNumber of the single document, rendered inside its
\* loaded <Document> for the pages 1..numPages (lines 371-400).
Vm_PageClick(pageNumber) ==
  /\ viewMode = "single"
  /\ pdfFile # Null
  /\ docStatus = "loaded"
  /\ pageNumber \in 1..numPages
  /\ Vm_openEnlargedView(pageNumber)

\* A click on the backdrop of the modal (line 572) or on its close button
\* (line 577), whose click bubbles to the backdrop with the same two
\* constant updates.
Vm_BackdropClick == ModalRendered /\ Vm_closeEnlargedView

\* The Escape key is pressed.  The keydown listener of lines 180-184 is on
\* the document while isModalOpen (lines 186-187).
Vm_EscapeKey == IF isModalOpen THEN Vm_closeEnlargedView ELSE UNCHANGED vars

\* React runs the Escape effect (lines 179-198), the only effect of this
\* component with a dependency that changes: after the first render and
\* when isModalOpen changed.
Vm_RunEffects ==
  LET first == mounted = "rendered"
  IN /\ mounted # "unmounted"
     /\ first \/ effectDeps.isModalOpen # isModalOpen
     /\ EscapeEffect(first)
     /\ mounted' = "mounted"
     /\ effectDeps' = CurrentDeps
     /\ UNCHANGED << docVars, docStatus, cmpVars, modalVars, modalDocStatus,
                     droppedEdits, Vm_Later, innerWidth, resizeListeners,
                     modalTimer, pendingTimers, burstReads, modalReads,
                     modalReadWait >>

\* React unmounts the component with its <Document>s and runs the cleanup
\* of the last run of the Escape effect (lines 193-196).
Vm_Unmount ==
  /\ mounted' = "unmounted"
  /\ docStatus' = "unmounted"
  /\ docStatus1' = "unmounted"
  /\ docStatus2' = "unmounted"
  /\ modalDocStatus' = "unmounted"
  /\ keydownListeners' = EscapeEffectCleanup(keydownListeners)
  /\ bodyOverflow' = "unset"
  /\ UNCHANGED << docVars, viewMode, pdf1Vars, pdf2Vars, modalVars,
                  droppedEdits, Vm_Later, innerWidth, effectDeps,
                  resizeListeners, modalTimer, pendingTimers, burstReads,
                  modalReads, modalReadWait >>

\* The Clear button of the single document (lines 247-254).
Vm_ClearButton == viewMode = "single" /\ pdfFile # Null /\ Vm_clearPdf

\* The textarea of a page of the single document (lines 441-449) changes.
Vm_TextareaChange(pageNumber, text) ==
  /\ viewMode = "single"
  /\ pdfFile # Null
  /\ pageNumber \in 1..numPages
  /\ handleOcrTextChange(pageNumber, text)

\* The file input of PDF 1, rendered in comparison mode (lines 263-273).
File1Input(file) == viewMode = "comparison" /\ onFile1Change(file)

\* The file input of PDF 2 (lines 289-299).
File2Input(file) == viewMode = "comparison" /\ onFile2Change(file)

\* react-pdf has opened the file of the <Document> of PDF 1.
Document1Loaded ==
  /\ docStatus1 = "loading"
  /\ ~FileInfo(pdfFile1).corrupt
  /\ docStatus1' = "loaded"
  /\ UNCHANGED docStatus
  /\ onDocument1LoadSuccess(FileInfo(pdfFile1).pages)

\* react-pdf could not open the file of PDF 1.
Document1Failed ==
  /\ docStatus1 = "loading"
  /\ FileInfo(pdfFile1).corrupt
  /\ docStatus1' = "failed"
  /\ UNCHANGED docStatus
  /\ onDocument1LoadError

\* react-pdf has opened the file of the <Document> of PDF 2.
Document2Loaded ==
  /\ docStatus2 = "loading"
  /\ ~FileInfo(pdfFile2).corrupt
  /\ docStatus2' = "loaded"
  /\ UNCHANGED docStatus
  /\ onDocument2LoadSuccess(FileInfo(pdfFile2).pages)

\* react-pdf could not open the file of PDF 2.
Document2Failed ==
  /\ docStatus2 = "loading"
  /\ FileInfo(pdfFile2).corrupt
  /\ docStatus2' = "failed"
  /\ UNCHANGED docStatus
  /\ onDocument2LoadError

\* The Clear button of PDF 1 (lines 274-281).
Clear1Button == viewMode = "comparison" /\ pdfFile1 # Null /\ clearPdf1

\* The Clear button of PDF 2 (lines 300-307).
Clear2Button == viewMode = "comparison" /\ pdfFile2 # Null /\ clearPdf2

\* The Clear Both PDFs button (lines 312-321).
ClearBothButton ==
  /\ viewMode = "comparison"
  /\ pdfFile1 # Null \/ pdfFile2 # Null
  /\ clearComparison

\* A mode button (lines 210-229), always rendered.
ViewModeButton(mode) == setViewMode(mode)

\* ------------------------------------------------------- specifications
\* The events of the file input, of react-pdf and of pdf.js.
NextLoad ==
  \/ \E file \in Files \cup {Null} : onFileChange(file)
  \/ DocumentLoaded
  \/ DocumentFailed
  \/ ExtractStep

\* Spec: the document, the note store, the modal and the layout mode, driven
\* by the events the rendered controls can deliver, both primary columns
\* shown.
Next ==
  \/ NextLoad
  \/ ClearButton
  \/ \E pageNumber \in PageArgs, text \in EditTexts :
       TextareaChange(pageNumber, text)
  \/ \E pageNumber \in PageArgs : PageClick(pageNumber)
  \/ ModalDocumentSettles
  \/ ModalPageSettles
  \/ ModalClose
  \/ \E mode \in LayoutModes : LayoutButton(mode)

Spec == Init /\ [][Next]_vars

\* SpecExtract: the document and the note store alone, over ExtractFiles;
\* the modal and the layout mode, which no action of it reads, stay as
\* constructed.
NextExtract ==
  \/ \E file \in ExtractFiles \cup {Null} : onFileChange(file)
  \/ DocumentLoaded
  \/ DocumentFailed
  \/ ExtractStep
  \/ ClearButton
  \/ \E pageNumber \in PageArgs, text \in EditTexts :
       TextareaChange(pageNumber, text)

SpecExtract == Init /\ [][NextExtract]_vars

\* SpecHandlers: the same component with its callbacks invoked in any state
\* and with any argument, as a caller of the callbacks can.
NextHandlers ==
  \/ NextLoad
  \/ clearPdf
  \/ \E pageNumber \in EditArgs, text \in EditTexts :
       handleOcrTextChange(pageNumber, text)
  \/ \E pageNumber \in PageArgs : openEnlargedView(pageNumber)
  \/ ModalDocumentSettles
  \/ ModalPageSettles
  \/ closeEnlargedView

SpecHandlers == Init /\ [][NextHandlers]_vars

\* SpecPanes: the document, the note store and the three column flags, the
\* toggle callbacks invoked any number of times between two renders.  No
\* action reads both a column flag and the modal or the layout mode, so
\* the modal and the layout mode stay out of this specification.
NextPanes ==
  \/ NextLoad
  \/ ClearButton
  \/ \E pageNumber \in PageArgs, text \in EditTexts :
       TextareaChange(pageNumber, text)
  \/ togglePdfVisibility
  \/ toggleTextVisibility
  \/ toggleAllTextVisibility
  \/ Render

SpecPanes == Init /\ [][NextPanes]_vars

\* The files of SpecView: a one-page document without faults.
ViewFiles == {"s"}

\* SpecView: one document with all of its controls: the note store, the
\* modal, the layout mode and the three column toggles.
NextView ==
  \/ \E file \in ViewFiles : onFileChange(file)
  \/ DocumentLoaded
  \/ ExtractStep
  \/ ClearButton
  \/ \E pageNumber \in PageArgs, text \in EditTexts :
       TextareaChange(pageNumber, text)
  \/ \E pageNumber \in PageArgs : PageClick(pageNumber)
  \/ ModalDocumentSettles
  \/ ModalPageSettles
  \/ BackdropClick
  \/ CloseButtonClick
  \/ ModalContentClick
  \/ EscapeKey
  \/ \E mode \in LayoutModes : LayoutButton(mode)
  \/ PdfToggleButton
  \/ TextToggleButton
  \/ AllTextToggleButton

SpecView == Init /\ [][NextView]_vars

\* SpecMeasure: the widths, the timer and the listeners of the effects, on
\* one document with the toggles of its PDF and notes columns and its modal,
\* whose document and page load while the widths are read; every event
\* finds the effects of the last render run, and a suspended pass runs on
\* after the component is unmounted.
NextMeasure ==
  \/ RunEffects
  \/ \E file \in ViewFiles : EffectsFlushed /\ onFileChange(file)
  \/ EffectsFlushed /\ DocumentLoaded
  \/ EffectsFlushed /\ ModalDocumentSettles
  \/ EffectsFlushed /\ ModalPageSettles
  \/ (EffectsFlushed \/ ~Alive) /\ ExtractStep
  \/ \E pageNumber \in PageArgs :
       EffectsFlushed /\ modalReads < MaxModalReads /\ PageClick(pageNumber)
  \/ EffectsFlushed /\ BackdropClick
  \/ EffectsFlushed /\ EscapeKey
  \/ EffectsFlushed /\ PdfToggleButton
  \/ EffectsFlushed /\ TextToggleButton
  \/ \E w \in Viewports : WindowResize(w)
  \/ TimePasses
  \/ TimerFires
  \/ Unmount

SpecMeasure == Init /\ [][NextMeasure]_vars

\* SpecEffects: the listeners and the timer of the effects, on one document
\* with its column toggles and its modal, in a window that is not resized
\* and with a modal whose <Document> is still loading its file at every
\* read of the modal's width.
NextEffects ==
  \/ RunEffects
  \/ \E file \in ViewFiles : EffectsFlushed /\ onFileChange(file)
  \/ EffectsFlushed /\ DocumentLoaded
  \/ (EffectsFlushed \/ ~Alive) /\ ExtractStep
  \/ \E pageNumber \in PageArgs :
       EffectsFlushed /\ modalReads < MaxModalReads /\ PageClick(pageNumber)
  \/ EffectsFlushed /\ BackdropClick
  \/ EffectsFlushed /\ EscapeKey
  \/ EffectsFlushed /\ PdfToggleButton
  \/ EffectsFlushed /\ TextToggleButton
  \/ EffectsFlushed /\ AllTextToggleButton
  \/ TimePasses
  \/ TimerFires
  \/ Unmount

SpecEffects == Init /\ [][NextEffects]_vars

\* SpecModal: the widths and the scales of the pages, on one document with
\* its modal, all three columns shown and the modal's <Document> still
\* loading its file at every read of the modal's width.
NextModal ==
  \/ RunEffects
  \/ \E file \in ViewFiles : EffectsFlushed /\ onFileChange(file)
  \/ EffectsFlushed /\ DocumentLoaded
  \/ (EffectsFlushed \/ ~Alive) /\ ExtractStep
  \/ \E pageNumber \in PageArgs :
       EffectsFlushed /\ modalReads < MaxModalReads /\ PageClick(pageNumber)
  \/ EffectsFlushed /\ BackdropClick
  \/ EffectsFlushed /\ EscapeKey
  \/ \E w \in Viewports : WindowResize(w)
  \/ TimePasses
  \/ TimerFires
  \/ Unmount

SpecModal == Init /\ [][NextModal]_vars

\* The files of SpecRetry: "c", whose text fetch of page 1 fails, and the
\* corrupt "d".
RetryFiles == {"c", "d"}

\* SpecRetry: the three operations that can fail, the load of a document,
\* the fetches of an extraction pass and the clipboard write, with the two
\* controls that start them.
NextRetry ==
  \/ \E file \in RetryFiles : onFileChange(file)
  \/ DocumentLoaded
  \/ DocumentFailed
  \/ ExtractStep
  \/ CopyButton
  \/ \E ok \in BOOLEAN : CopyWriteSettles(ok)

SpecRetry == Init /\ [][NextRetry]_vars

\* The files of SpecPass: the two-page documents "c" and "g".
PassFiles == {"c", "g"}

\* SpecPass: the extraction passes of documents that load, with the edits
\* the user makes while they run.
NextPass ==
  \/ \E file \in PassFiles : onFileChange(file)
  \/ DocumentLoaded
  \/ ExtractStep
  \/ \E pageNumber \in PageArgs, text \in EditTexts :
       TextareaChange(pageNumber, text)

SpecPass == Init /\ [][NextPass]_vars

\* SpecCompare: the component with the two-document comparison: its single
\* document with its notes and its modal, PDF 1, PDF 2, the view mode and
\* the Escape effect; every event finds the effect of the last render run.
NextCompare ==
  \/ Vm_RunEffects
  \/ \E file \in CompareFiles \cup {Null} : EffectsFlushed /\ Vm_FileInput(file)
  \/ EffectsFlushed /\ Vm_DocumentLoaded
  \/ EffectsFlushed /\ Vm_DocumentFailed
  \/ EffectsFlushed /\ Vm_ClearButton
  \/ \E pageNumber \in PageArgs, text \in EditTexts :
       EffectsFlushed /\ Vm_TextareaChange(pageNumber, text)
  \/ \E pageNumber \in PageArgs : EffectsFlushed /\ Vm_PageClick(pageNumber)
  \/ EffectsFlushed /\ Vm_ModalDocumentSettles
  \/ EffectsFlushed /\ Vm_ModalPageSettles
  \/ EffectsFlushed /\ Vm_BackdropClick
  \/ EffectsFlushed /\ Vm_EscapeKey
  \/ \E file \in CompareFiles \cup {Null} : EffectsFlushed /\ File1Input(file)
  \/ \E file \in CompareFiles \cup {Null} : EffectsFlushed /\ File2Input(file)
  \/ EffectsFlushed /\ Document1Loaded
  \/ EffectsFlushed /\ Document1Failed
  \/ EffectsFlushed /\ Document2Loaded
  \/ EffectsFlushed /\ Document2Failed
  \/ EffectsFlushed /\ Clear1Button
  \/ EffectsFlushed /\ Clear2Button
  \/ EffectsFlushed /\ ClearBothButton
  \/ \E mode \in ViewModes : EffectsFlushed /\ ViewModeButton(mode)
  \/ EffectsFlushed /\ Vm_Unmount

SpecCompare == Init /\ [][NextCompare]_vars

\* SpecSizing: the sizing of the editor of a page, over the layout modes
\* and the widths of the window.
NextSizing ==
  \/ \E mode \in LayoutModes : LayoutButton(mode)
  \/ \E pageNumber \in PageArgs : CallTextareaSizing(pageNumber)
  \/ \E w \in Viewports : WindowResize(w)
  \/ TimePasses

SpecSizing == InitSizing /\ [][NextSizing]_vars

\* SpecTsx: the component of src/components/PDFNotebook.tsx.
NextTsx ==
  \/ \E file \in Files \cup {Null} : onFileChange(file)
  \/ Tsx_DocumentLoaded
  \/ DocumentFailed
  \/ ClearButton
  \/ \E pageNumber \in PageArgs, text \in EditTexts :
       Tsx_TextareaChange(pageNumber, text)
  \/ \E mode \in LayoutModes : Tsx_LayoutButton(mode)

SpecTsx == Init /\ [][NextTsx]_vars

\* SpecHelpers: the pure helpers of a render, called on any state.
NextHelpers ==
  \/ CallConcat
  \/ \E width \in Widths, isModal \in BOOLEAN : CallScale(width, isModal)

SpecHelpers == InitHelpers /\ [][NextHelpers]_vars

\* SpecCopy: the copy action and the clipboard, on any note store.
NextCopy ==
  \/ copyAllTextToClipboard
  \/ \E ok \in BOOLEAN : CopyWriteSettles(ok)

SpecCopy == InitCopy /\ [][NextCopy]_vars

\* ================================================================ claims

\* The page count as a key range: no key while numPages is null.
PageRange == IF numPages = NoNum THEN {} ELSE 1..numPages

\* The texts a complete pass over file f yields when every page's failure
\* is isolated: '' for a page whose fetch fails, its text for every other.
IsolatedTexts(f) ==
  [k \in 1..FileInfo(f).pages |->
     IF k \in FileInfo(f).badPage \cup FileInfo(f).badText THEN EmptyStr
     ELSE PageText(f, k)]

\* C1: once a file has been selected or the document cleared, the note store
\* never holds text that a pass started before that selection or clear
\* extracted.
C1_StaleResultDiscarded ==
  ~(staleSeed /\ \E k \in DOMAIN ocrTexts :
                    ocrTexts[k] \notin {EmptyStr} \cup EditTexts)

\* C2: when a pass that has opened its document ends, every page whose fetch
\* fails holds '' and every page whose fetch succeeds holds its extracted
\* text, page 1 included.
C2_PageFailureIsolated ==
  [][\A i \in 1..Len(passes) :
       (passes' = RemoveAt(passes, i)
          /\ passes[i].pc \notin {"open", "getDocument"})
         => ocrTexts' = IsolatedTexts(passes[i].file)]_vars

\* C3: in every reachable state the keys of the note store are exactly
\* 1..numPages (none while numPages is null).
C3_KeysExactlyPages == DOMAIN ocrTexts = PageRange

\* C4: the state right after a load success has the keys 1..N, N the page
\* count of the loaded document, and every value is the empty string.
C4_LoadSeedsEmptyNotes ==
  [][DocumentLoaded =>
       /\ numPages' = FileInfo(pdfFile).pages
       /\ DOMAIN ocrTexts' = 1..numPages'
       /\ \A k \in 1..numPages' : ocrTexts'[k] = EmptyStr]_vars

\* C4 witness: a two-page document has just loaded, its pass not yet begun.
C4_Witness ==
  /\ docStatus = "loaded"
  /\ numPages = MaxPages
  /\ Len(passes) > 0
  /\ passes[Len(passes)].pc = "open"
  /\ ~passes[Len(passes)].stale
  /\ \A k \in 1..MaxPages : k \in DOMAIN ocrTexts /\ ocrTexts[k] = EmptyStr

\* C5: in every reachable state the PDF column or the notes column is
\* visible, also between two toggles of one render.
C5_PrimaryPaneVisible == pdfVisible \/ textVisible

\* C6: in every reachable state an open modal shows a page of the loaded
\* document: 1 <= enlargedPage <= numPages.
C6_ModalPageInRange ==
  isModalOpen => (numPages # NoNum /\ 1 <= enlargedPage /\ enlargedPage <= numPages)

\* C7: on a loaded document, openEnlargedView with a page outside
\* 1..numPages leaves the modal state (open flag and page) as it was.
C7_OpenOutOfRangeRejected ==
  [][\A pageNumber \in PageArgs :
       (/\ numPages # NoNum
        /\ pageNumber \notin PageRange
        /\ openEnlargedView(pageNumber))
         => UNCHANGED modalVars]_vars

\* C8: on a loaded document, handleOcrTextChange with a page outside
\* 1..numPages leaves the note store as it was: no key added, no value
\* altered.
C8_SetOutOfRangeRejected ==
  [][\A pageNumber \in EditArgs, text \in EditTexts :
       (/\ numPages # NoNum
        /\ pageNumber \notin PageRange
        /\ handleOcrTextChange(pageNumber, text))
         => UNCHANGED ocrTexts]_vars

\* C9: for positive widths the scale lies in [0.3, 1.5], in [0.3, 3.0] for
\* the modal; for a zero container or page width it is the default, 0.8 or
\* 1.5 for the modal.
C9_ScaleWithinBounds ==
  ret.op = "scale" =>
    IF ret.width > 0 /\ pdfPageWidth > 0
    THEN /\ 3 * ret.value.d <= 10 * ret.value.n
         /\ 10 * ret.value.n <= (IF ret.isModal THEN 30 ELSE 15) * ret.value.d
    ELSE 10 * ret.value.n = (IF ret.isModal THEN 15 ELSE 8) * ret.value.d

\* C9 witness: a narrow container on a wide page, where the lower bound 0.3
\* decides the result.
C9_Witness ==
  /\ ret.op = "scale"
  /\ ret.width > 0
  /\ pdfPageWidth > 0
  /\ ret.width * 95 * 10 < 3 * 100 * pdfPageWidth
  /\ 10 * ret.value.n = 3 * ret.value.d

\* The pages of 1..n whose text has a character that is not white space.
C10_Included(n, store) ==
  {k \in 1..n : k \in DOMAIN store
                  /\ \E j \in 1..Len(store[k]) : store[k][j] \notin WhiteSpace}

\* s from its first to its last character that is not white space.
C10_Trimmed(s) ==
  LET solid == {j \in 1..Len(s) : s[j] \notin WhiteSpace}
      first == CHOOSE j \in solid : \A h \in solid : j <= h
      last == CHOOSE j \in solid : \A h \in solid : h <= j
  IN SubSeq(s, first, last)

\* The block of page k: the header line, then the trimmed text.
C10_Block(k, store) ==
  << "=", "=", "=", " ", "P", "a", "g", "e", " ", Digit(k), " ", "=", "=", "=",
     "\n" >> \o C10_Trimmed(store[k])

\* The blocks of the pages of S in ascending order, one blank line between.
RECURSIVE C10_Blocks(_, _)
C10_Blocks(S, store) ==
  IF S = {} THEN EmptyStr
  ELSE LET top == CHOOSE k \in S : \A h \in S : h <= k
       IN IF S = {top} THEN C10_Block(top, store)
          ELSE C10_Blocks(S \ {top}, store) \o << "\n", "\n" >>
                 \o C10_Block(top, store)

\* C10: getAllConcatenatedText is the blocks '=== Page k ===', newline,
\* trimmed text of exactly the pages of 1..numPages with non-blank text, in
\* ascending order, joined by a blank line; '' when no page qualifies.
C10_ConcatBlocks ==
  ret.op = "concat" =>
    ret.value = C10_Blocks(C10_Included(numPages, ocrTexts), ocrTexts)

\* C10 witness: of two pages the first is blank and skipped, the second is
\* trimmed and is the whole result.
C10_Witness ==
  /\ ret.op = "concat"
  /\ numPages = 2
  /\ DOMAIN ocrTexts = 1..2
  /\ ocrTexts[1] = << " " >>
  /\ ocrTexts[2] = << " ", "a", "\n" >>
  /\ ret.value = << "=", "=", "=", " ", "P", "a", "g", "e", " ", "2", " ",
                    "=", "=", "=", "\n", "a" >>

\* The number of console.warn calls of line 693 for page k in log.
C11_Warnings(log, k) == Cardinality({j \in DOMAIN log : log[j] = k})

\* C11: when a pass runs its loop to the end (line 698), the note store
\* holds the extracted text of every page whose fetch succeeded and '' for
\* every page whose fetch failed, and the pass has logged exactly one
\* warning for every failed page and none for any other.
C11_PassSeedsAndWarns ==
  [][\A i \in 1..Len(passes) :
       (/\ passes[i].pc \in {"getPage", "getText"}
        /\ passes' = RemoveAt(passes, i))
         => LET f == passes[i].file IN
            /\ ocrTexts' = IsolatedTexts(f)
            /\ \A k \in 1..FileInfo(f).pages :
                 C11_Warnings(warnLog', k) =
                   IF k \in FileInfo(f).badPage \cup FileInfo(f).badText
                   THEN 1 ELSE 0
            /\ Len(warnLog') =
                 Cardinality(FileInfo(f).badPage \cup FileInfo(f).badText)]_vars

\* C11 witness: the pass over "c" has ended with no selection, clear or edit
\* since its load: page 1, whose text fetch failed, holds '' and has one
\* warning, page 2 holds its text.
C11_Witness ==
  /\ pdfFile = "c"
  /\ passes = << >>
  /\ ~staleSeed
  /\ warnLog = << 1 >>
  /\ DOMAIN ocrTexts = 1..MaxPages
  /\ ocrTexts[1] = EmptyStr
  /\ ocrTexts[2] = PageText("c", 2)

\* What C12 says of a toggle of the column shown by flag and its
\* counterpart other: nothing changes when the column is visible and the
\* other one hidden, else the flag flips and the other flags keep their
\* values.
C12_Effect(flag, other, flagNext, otherNext) ==
  /\ allTextVisible' = allTextVisible
  /\ otherNext = other
  /\ flagNext = IF flag /\ ~other THEN flag ELSE ~flag

\* C12: while a file is selected, togglePdfVisibility changes nothing when
\* the PDF column is visible and the notes column hidden, and in every other
\* state flips pdfVisible and leaves textVisible and allTextVisible as they
\* were; the same for toggleTextVisibility with the two columns exchanged.
C12_ToggleGuardedFlip ==
  [][pdfFile # Null =>
       /\ togglePdfVisibility =>
            C12_Effect(pdfVisible, textVisible, pdfVisible', textVisible')
       /\ toggleTextVisibility =>
            C12_Effect(textVisible, pdfVisible, textVisible', pdfVisible')]_vars

\* C13: in every reachable state toggleAllTextVisibility can flip
\* allTextVisible, and every call of it flips allTextVisible and leaves
\* pdfVisible, textVisible, the layout mode, the modal and the note store
\* as they were.
C13_CombinedToggleFrame ==
  /\ [](ENABLED (toggleAllTextVisibility /\ allTextVisible' = ~allTextVisible))
  /\ [][toggleAllTextVisibility =>
          /\ allTextVisible' = ~allTextVisible
          /\ UNCHANGED << pdfVisible, textVisible, layoutMode, modalVars,
                          ocrTexts >>]_vars

\* C13 witness: the All Text column is hidden while both primary columns
\* are shown, the modal is open, the layout mode is not the initial one and
\* the note store holds an edit.
C13_Witness ==
  /\ ~allTextVisible
  /\ pdfVisible
  /\ textVisible
  /\ isModalOpen
  /\ layoutMode = "reading"
  /\ 1 \in DOMAIN ocrTexts
  /\ ocrTexts[1] \in EditTexts

\* Everything but the modal state.
C14_Rest ==
  << docVars, layoutMode, paneVars, renderVars, scaleVars, asyncVars, ret, copyVars,
                  effectVars, droppedEdits >>

\* C14: a click on the close button, a click on the backdrop and the Escape
\* key while the modal is open each end with isModalOpen false and
\* enlargedPage null and change nothing else; a click on the page content
\* of the modal and the Escape key while the modal is closed change nothing.
C14_CloseTriggers ==
  [][/\ (CloseButtonClick \/ BackdropClick \/ (isModalOpen /\ EscapeKey)) =>
          /\ isModalOpen' = FALSE
          /\ enlargedPage' = NoNum
          /\ UNCHANGED C14_Rest
     /\ (ModalContentClick \/ (~isModalOpen /\ EscapeKey)) =>
          UNCHANGED vars]_vars

\* C14 witness: the modal shows page 1 over an edited note and a layout
\* mode that is not the initial one, and each of the three triggers can
\* close it.
C14_Witness ==
  /\ ModalRendered
  /\ enlargedPage = 1
  /\ layoutMode = "comparison"
  /\ ocrTexts = << << "x" >> >>
  /\ ENABLED (CloseButtonClick /\ ~isModalOpen')
  /\ ENABLED (BackdropClick /\ ~isModalOpen')
  /\ ENABLED (EscapeKey /\ ~isModalOpen')
  /\ ENABLED ModalContentClick

\* C15: in PDFNotebook.tsx a layout mode button, and the load success of
\* the <Document> it re-mounts while a document is loaded, leave the column
\* flags, the modal, numPages and the note store as they were.
C15_LayoutKeepsNotes ==
  [][/\ (\E mode \in LayoutModes : Tsx_LayoutButton(mode)) =>
          UNCHANGED << paneVars, modalVars, numPages, ocrTexts >>
     /\ (numPages # NoNum /\ Tsx_DocumentLoaded) =>
          UNCHANGED << paneVars, modalVars, numPages, ocrTexts >>]_vars

\* C16: when a newly selected document loads after an earlier document was
\* loaded and its pass has ended, the state right after the load success has the
\* initial value of every session entity: the seeded note store, all three
\* columns shown, layout mode normal, the modal closed with no page, and no
\* page width and no container width measured.
C16_NewLoadRebuilds ==
  [][(pdfPageWidth # 0 /\ passes = << >> /\ numPages = NoNum
        /\ DocumentLoaded) =>
       /\ ocrTexts' = InitialTexts(numPages')
       /\ pdfVisible' /\ textVisible' /\ allTextVisible'
       /\ layoutMode' = "normal"
       /\ ~isModalOpen' /\ enlargedPage' = NoNum
       /\ pdfPageWidth' = 0
       /\ containerWidth'.n = 0 /\ modalContainerWidth'.n = 0]_vars

\* The notice of an InvalidFileType rejection (line 723).
C17_Notice == "Please select a valid PDF file."

\* C17: selecting a file whose type is not application/pdf leaves the
\* selected file, numPages and the note store as they were, starts no load
\* of a <Document> and no extraction pass, and sets the error notice.
C17_NonPdfRejected ==
  [][\A file \in ExtractFiles :
       (FileInfo(file).type # PdfType /\ onFileChange(file)) =>
          /\ UNCHANGED << pdfFile, numPages, ocrTexts, docStatus, passes >>
          /\ error' = C17_Notice]_vars

\* C17 witness: a file that is not a PDF was selected after "c" was loaded
\* and extracted: the notice is set, "c" and its notes are still there and
\* nothing is loading.
C17_Witness ==
  /\ error = C17_Notice
  /\ pdfFile = "c"
  /\ numPages = MaxPages
  /\ docStatus = "loaded"
  /\ passes = << >>
  /\ ocrTexts = IsolatedTexts("c")

\* C18: an error notice that is set changes only by a file selection or by
\* clearPdf; no callback of react-pdf and no step of an extraction pass
\* clears or replaces it.
C18_NoticePersists ==
  [][(error # Null /\ error' # error) =>
       \/ \E file \in ExtractFiles : onFileChange(file)
       \/ clearPdf]_vars

\* The state of the component a copy must leave alone.
C19_AppState == << docVars, modalVars, layoutMode, paneVars >>

\* C19 as stated: whatever the note store of a loaded document holds, the
\* copy action hands the string of getAllConcatenatedText to writeText.
C19_CopyAlwaysWrites ==
  [][(numPages > 0 /\ DOMAIN ocrTexts = 1..numPages
        /\ copyAllTextToClipboard) =>
       written' = Append(written, getAllConcatenatedText(numPages, ocrTexts))]_vars

\* C19, amended: when getAllConcatenatedText yields a string that is not
\* empty, the copy action hands exactly that string to writeText once, and
\* when it yields '' the action writes nothing and reports 'No text to copy';
\* a settled write reports success if it resolved and failure if it was
\* rejected, once; no step of the copy action changes the note store,
\* numPages, the columns, the layout mode, the modal or the error notice.
C19_CopyWritesConcat ==
  [][/\ copyAllTextToClipboard =>
          /\ IF getAllConcatenatedText(numPages, ocrTexts) = EmptyStr
             THEN /\ written' = written
                  /\ alerts' = Append(alerts, "No text to copy")
             ELSE /\ written' = Append(written,
                                   getAllConcatenatedText(numPages, ocrTexts))
                  /\ alerts' = alerts
          /\ UNCHANGED C19_AppState
     /\ \A ok \in BOOLEAN : CopyWriteSettles(ok) =>
          /\ written' = written
          /\ Len(alerts') = Len(alerts) + 1
          /\ (alerts'[Len(alerts')] = "All text copied to clipboard!") <=> ok
          /\ (alerts'[Len(alerts')] = "Failed to copy text to clipboard") <=> ~ok
          /\ UNCHANGED C19_AppState]_vars

\* C19 witness: the text of a two-page note store went to writeText once,
\* the write was rejected and the failure was reported.
C19_Witness ==
  /\ numPages = 2
  /\ written = << getAllConcatenatedText(numPages, ocrTexts) >>
  /\ written[1] # EmptyStr
  /\ pendingWrites = 0
  /\ alerts = << "Failed to copy text to clipboard" >>

\* The greatest common divisor of a > 0 and b >= 0.
RECURSIVE C20_Gcd(_, _)
C20_Gcd(a, b) == IF b = 0 THEN a ELSE C20_Gcd(b, a % b)

\* The fraction n / d in lowest terms, as << numerator, denominator >>.
C20_Lowest(n, d) == << n \div C20_Gcd(n, d), d \div C20_Gcd(n, d) >>

\* min(max, max(0.3, w * r / pw)) as a fraction << numerator, denominator >>,
\* r = 0.95 = 19 / 20 and max = 1.5, for the modal r = 0.85 = 17 / 20 and
\* max = 3.0.
C20_Expected(w, pw, isModal) ==
  LET num == w * (IF isModal THEN 17 ELSE 19)
      den == 20 * pw
      top == IF isModal THEN 30 ELSE 15
      inner == IF 10 * num < 3 * den THEN << 3, 10 >> ELSE << num, den >>
  IN IF 10 * inner[1] > top * inner[2] THEN << top, 10 >> ELSE inner

\* C20: for a positive container width w and a positive page width pw the
\* scale is min(max, max(0.3, w * r / pw)), r = 0.95 and max = 1.5, for the
\* modal r = 0.85 and max = 3.0.
C20_ScaleFormula ==
  (ret.op = "scale" /\ ret.width > 0 /\ pdfPageWidth > 0) =>
    LET e == C20_Expected(ret.width, pdfPageWidth, ret.isModal)
    IN C20_Lowest(ret.value.n, ret.value.d) = C20_Lowest(e[1], e[2])

\* C20 witness: w = 1000 and pw = 800, not modal, yield 1.1875 = 19 / 16.
C20_Witness ==
  /\ ret.op = "scale"
  /\ ~ret.isModal
  /\ ret.width = 1000
  /\ pdfPageWidth = 800
  /\ 16 * ret.value.n = 19 * ret.value.d

\* The pages of the PDF column are in the DOM: inside the loaded <Document>
\* of a rendered column.
C21_SourcePagesRendered ==
  PdfContainerMounted /\ docStatus = "loaded" /\ numPages > 0

\* The scale x / y is the fraction s.
C21_Is(s, x, y) == s.n * y = x * s.d

\* C21 as stated: a rendered page gets the default scale, 0.8 in the PDF
\* column and 1.5 in the modal, whenever the tracked width of its container
\* is 0 or the page width is 0.
C21_DefaultWhenUnmeasured ==
  /\ (C21_SourcePagesRendered /\ (containerWidth.n = 0 \/ pdfPageWidth = 0))
       => C21_Is(SourcePageScale, 8, 10)
  /\ (ModalRendered /\ (modalContainerWidth.n = 0 \/ pdfPageWidth = 0))
       => C21_Is(ModalPageScale, 15, 10)

\* C21, amended: a rendered page gets the default scale whenever the page
\* width is 0, and a page of the PDF column also whenever the tracked width
\* of the column is 0; the page of the modal, while the tracked width of the
\* modal is 0 and the page width is not, gets the scale computed from
\* window.innerWidth - 100: the default 1.5 if that is 0, else
\* min(3.0, max(0.3, 0.85 * (innerWidth - 100) / page width)).
C21_DefaultOrWindowWidth ==
  /\ (C21_SourcePagesRendered /\ (containerWidth.n = 0 \/ pdfPageWidth = 0))
       => C21_Is(SourcePageScale, 8, 10)
  /\ (ModalRendered /\ pdfPageWidth = 0) => C21_Is(ModalPageScale, 15, 10)
  /\ (ModalRendered /\ modalContainerWidth.n = 0 /\ pdfPageWidth # 0) =>
       IF innerWidth - 100 = 0 THEN C21_Is(ModalPageScale, 15, 10)
       ELSE LET e == C20_Expected(innerWidth - 100, pdfPageWidth, TRUE)
            IN C20_Lowest(ModalPageScale.n, ModalPageScale.d)
                 = C20_Lowest(e[1], e[2])

\* C21 witness: the modal shows a page of measured width 800 in a window
\* 1300 wide before its own width was ever read: the scale is 0.85 * 1200 /
\* 800 = 1.275, and the PDF column, never measured, has the default 0.8.
C21_Witness ==
  /\ ModalRendered
  /\ modalContainerWidth.n = 0
  /\ pdfPageWidth = 800
  /\ innerWidth = 1300
  /\ C21_Is(ModalPageScale, 51, 40)
  /\ C21_SourcePagesRendered
  /\ containerWidth.n = 0
  /\ C21_Is(SourcePageScale, 8, 10)

\* C22: whenever the PDF column is in the DOM and nothing is left to run
\* without the user (the last render's effects have run), the tracked
\* containerWidth is the column's current width: the column was measured
\* after it appeared, after every change of the columns and after every
\* resize of the window.
C22_WidthFollowsContainer ==
  (EffectsFlushed /\ PdfContainerMounted)
    => containerWidth = ContainerBoxWidth(innerWidth)

\* C23: of the resize events of one burst (no time passes between them) at
\* most one leads to a read of the PDF column's width.
C23_ResizeDebounced == burstReads <= 1

\* C24: no read of the modal's width happens while the settle timer set at
\* the opening of the modal still has time left: the first read since the
\* opening, if any, happened with 0 ms left.
C24_ModalReadAfterSettle == modalReadWait \in {NoNum, 0}

\* C25: a valid file selection empties the note store whatever it held, and
\* when the pass of the latest selection runs its loop to the end the note
\* store is the fresh extraction result of the selected file for every
\* page, whatever the user typed before.
C25_SelectionReseeds ==
  [][/\ \A file \in ExtractFiles :
          (FileInfo(file).type = PdfType /\ onFileChange(file)) =>
             (ocrTexts' = EmptyTexts /\ numPages' = NoNum)
     /\ \A i \in 1..Len(passes) :
          (/\ ~passes[i].stale
           /\ passes[i].pc \in {"getPage", "getText"}
           /\ passes' = RemoveAt(passes, i))
            => (passes[i].file = pdfFile
                  /\ ocrTexts' = IsolatedTexts(pdfFile))]_vars

\* C25 witness: "c" was selected again while the note store held a typed
\* text and the pass of its first selection was still in flight; the
\* document loaded and the pass of the second selection has ended: the note
\* store is the extraction result of "c".
C25_Witness ==
  /\ pdfFile = "c"
  /\ droppedEdits
  /\ Len(passes) = 1
  /\ passes[1].stale
  /\ passes[1].file = "c"
  /\ ~staleSeed
  /\ numPages = MaxPages
  /\ ocrTexts = IsolatedTexts("c")

\* C26: a load of the <Document> starts only at a file selection and an
\* extraction pass only at a load success; a pass in flight has begun no
\* page twice; writeText is called only by the copy action.  Hence nothing
\* runs again after a failed load, a failed fetch or a failed write until
\* the user selects a file or clicks copy.
C26_NoAutomaticRetry ==
  /\ [](\A i \in 1..Len(passes) :
          \A a, b \in DOMAIN passes[i].requested :
            a # b => passes[i].requested[a] # passes[i].requested[b])
  /\ [][/\ (docStatus # "loading" /\ docStatus' = "loading") =>
              \E file \in RetryFiles : onFileChange(file)
        /\ Len(passes') > Len(passes) => DocumentLoaded
        /\ written' # written => copyAllTextToClipboard]_vars

\* C26 witness: the text fetch of page 1 of "c" failed, so that the copy
\* wrote the text of page 2 alone, the write was rejected, and the load of
\* "d", selected afterwards, failed: one write, no pass and no load in
\* flight.
C26_Witness ==
  /\ pdfFile = "d"
  /\ docStatus = "failed"
  /\ passes = << >>
  /\ written = << getAllConcatenatedText(MaxPages, IsolatedTexts("c")) >>
  /\ pendingWrites = 0
  /\ alerts = << "Failed to copy text to clipboard" >>

\* The estimated line count of a text: max(number of lines, ceil(length /
\* 60)).
C27_EstimatedLines(text) == Max(SplitLength(text), Ceil(Len(text), 60))

\* The min-height in px of the editor of reading mode over the text.
C27_MinHeight(text) ==
  EffectiveMinHeight(getTextareaHeight("reading", << text >>, 1),
                     getTextareaStyle("reading", << text >>, 1))

\* C27: in reading mode the min-height of the editor of a page never
\* exceeds the cap of getTextareaHeight, min-h-96 (384 px), and is at least
\* the min-height of every text whose estimated line count is not larger.
C27_ReadingHeightMonotoneCapped ==
  (ret.op = "sizing" /\ layoutMode = "reading") =>
    LET text == TextOf(ocrTexts, ret.pageNumber)
        height == EffectiveMinHeight(ret.class, ret.style)
    IN /\ height <= ClassPx("min-h-96")
       /\ \A other \in SizingTexts :
            C27_EstimatedLines(other) <= C27_EstimatedLines(text)
              => C27_MinHeight(other) <= height

\* The scales x and y are the same number.
C28_SameScale(x, y) == C20_Lowest(x.n, x.d) = C20_Lowest(y.n, y.d)

\* The height in px of the editor of page 1.
C28_EditorHeight ==
  FixedHeight(getTextareaHeight(layoutMode, ocrTexts, 1),
              getTextareaStyle(layoutMode, ocrTexts, 1))

\* C28: while the layout mode is comparison, a step that changes the scale
\* of the pages of the PDF column changes the height of the editor.
C28_HeightFollowsScale ==
  [][(/\ layoutMode = "comparison"
      /\ layoutMode' = "comparison"
      /\ ~C28_SameScale(SourcePageScale,
                        calculateResponsiveScale(pdfPageWidth',
                                                 containerWidth', FALSE)))
       => C28_EditorHeight' # C28_EditorHeight]_vars

\* C29: at most one resize listener and at most one keydown listener are
\* registered; a keydown listener is registered only by an effect run that
\* found the modal open, and once the effects of the last render have run
\* exactly while the modal is open, with the page's scrolling locked exactly
\* then; after the unmount no listener and no timer is left and the
\* scrolling is unlocked.
C29_ListenersReleased ==
  /\ resizeListeners \in 0..1
  /\ keydownListeners \in 0..1
  /\ keydownListeners = 1 => effectDeps.isModalOpen
  /\ EffectsFlushed =>
       /\ resizeListeners = 1
       /\ keydownListeners = (IF isModalOpen THEN 1 ELSE 0)
       /\ bodyOverflow = (IF isModalOpen THEN "hidden" ELSE "unset")
  /\ mounted = "unmounted" =>
       /\ resizeListeners = 0
       /\ keydownListeners = 0
       /\ modalTimer = NoNum
       /\ bodyOverflow = "unset"

\* C29 witness: the component was unmounted while the modal was open, with
\* the settle timer set, and after column toggles: the PDF column and the
\* All Text column are hidden; nothing is registered any more.
C29_Witness ==
  /\ mounted = "unmounted"
  /\ isModalOpen
  /\ effectDeps.isModalOpen
  /\ ~pdfVisible
  /\ ~allTextVisible
  /\ resizeListeners = 0
  /\ keydownListeners = 0
  /\ bodyOverflow = "unset"

\* C30: a pass that has opened its document ends only after it has begun
\* the fetch of every page 1..numPages once, in ascending order.
C30_PassRequestsEveryPage ==
  [][\A i \in 1..Len(passes) :
       (passes' = RemoveAt(passes, i)
          /\ passes[i].pc \notin {"open", "getDocument"})
         => passes[i].requested = [k \in 1..passes[i].numPages |-> k]]_vars

\* C31: no step leaves a pass in flight that has made a write to the note
\* store, whatever it has collected; the step of a pass that changes the note store is its
\* last, taken when the fetch of every page 1..numPages has been begun and
\* the last page has been attempted, and it stores the collected texts of
\* all pages at once.
C31_SingleWriteAfterLastPage ==
  [][/\ \A i \in 1..Len(passes') : passes'[i].stores = 0
     /\ (ExtractStep /\ ocrTexts' # ocrTexts) =>
          \E i \in 1..Len(passes) :
            /\ passes' = RemoveAt(passes, i)
            /\ passes[i].pageNum = passes[i].numPages
            /\ passes[i].requested = [k \in 1..passes[i].numPages |-> k]
            /\ DOMAIN ocrTexts' = 1..passes[i].numPages]_vars

\* C31 witness: the pass of "g" holds the text of page 1 and awaits page 2,
\* and the note store still holds the seed of the load success alone.
C31_Witness ==
  /\ pdfFile = "g"
  /\ Len(passes) = 1
  /\ ~passes[1].stale
  /\ passes[1].pc = "getPage"
  /\ passes[1].pageNum = 2
  /\ passes[1].extractedTexts = Spread(EmptyTexts, 1, PageText("g", 1))
  /\ ocrTexts = InitialTexts(MaxPages)

\* C33: when a pass runs its loop to the end, the note store becomes the
\* extraction result of the pass's file for every page, whatever the user
\* typed since the load success: no typed text is left in it.
C33_PassReplacesEdits ==
  [][\A i \in 1..Len(passes) :
       (/\ passes[i].pc \in {"getPage", "getText"}
        /\ passes' = RemoveAt(passes, i)
        /\ HoldsEdit(ocrTexts))
         => (/\ ocrTexts' = IsolatedTexts(passes[i].file)
             /\ ~HoldsEdit(ocrTexts'))]_vars

\* C33 witness: the user typed into a page of "g" after its load success,
\* no file was selected since, and the pass has ended: the note store is
\* the extraction result of "g".
C33_Witness ==
  /\ lostEdits
  /\ ~droppedEdits
  /\ ~staleSeed
  /\ pdfFile = "g"
  /\ passes = << >>
  /\ numPages = MaxPages
  /\ ocrTexts = IsolatedTexts("g")

\* C32: when react-pdf reports that the selected document cannot be opened,
\* the state right after has loading false, an error notice, numPages null,
\* an empty note store and the passes that were in flight before, no new
\* one; and a valid file selection made while the notice of a failed load
\* is shown clears the notice, sets loading and mounts a loading <Document>.
C32_LoadFailureContained ==
  [][/\ DocumentFailed =>
          /\ ~loading'
          /\ error' # Null
          /\ numPages' = NoNum
          /\ ocrTexts' = EmptyTexts
          /\ passes' = passes
     /\ \A file \in Files :
          (/\ docStatus = "failed"
           /\ FileInfo(file).type = PdfType
           /\ onFileChange(file))
            => (error' = Null /\ loading' /\ pdfFile' = file
                  /\ docStatus' = "loading")]_vars

\* C34: a change of the textarea of a page p in 1..numPages to the text t
\* leaves t as the stored text of p, the text of every other page and the
\* keys of the note store as they were, numPages, the column flags, the
\* layout mode and the modal as they were, and the character count shown
\* for p is the length of t.
C34_SetTextFrame ==
  [][\A pageNumber \in PageArgs, text \in EditTexts :
       (pageNumber \in PageRange /\ handleOcrTextChange(pageNumber, text))
         => /\ pageNumber \in DOMAIN ocrTexts' /\ ocrTexts'[pageNumber] = text
            /\ DOMAIN ocrTexts' = DOMAIN ocrTexts
            /\ \A k \in DOMAIN ocrTexts \ {pageNumber} :
                 ocrTexts'[k] = ocrTexts[k]
            /\ UNCHANGED << numPages, paneVars, layoutMode, modalVars >>
            /\ CharacterCount(ocrTexts', pageNumber) = Len(text)]_vars

\* C35: in every reachable state isModalOpen is true exactly when
\* enlargedPage is not null, and a step that changes either of them is a
\* call of openEnlargedView or of closeEnlargedView.
C35_OpenIffPage ==
  /\ [](isModalOpen <=> enlargedPage # NoNum)
  /\ [][modalVars' # modalVars =>
          \/ \E pageNumber \in PageArgs : openEnlargedView(pageNumber)
          \/ closeEnlargedView]_vars

\* C35 witness: the modal was opened on page 1 of the loaded document "s",
\* whose pass has ended, and is in the DOM.
C35_Witness ==
  /\ isModalOpen
  /\ enlargedPage = 1
  /\ pdfFile = "s"
  /\ docStatus = "loaded"
  /\ passes = << >>
  /\ ModalRendered

\* C36: in every reachable state loading and an error notice are not both
\* set, and while loading is set a file is selected and numPages is null.
C36_LoadingExcludesError ==
  /\ ~(loading /\ error # Null)
  /\ loading => (pdfFile # Null /\ numPages = NoNum)

\* C36 witness: the load of the selected "d" has failed: the notice of
\* line 709 is shown and loading, set at the selection, is cleared.
C36_Witness ==
  /\ pdfFile = "d"
  /\ docStatus = "failed"
  /\ error = "Failed to load PDF. Please make sure the file is a valid PDF."
  /\ ~loading
  /\ numPages = NoNum

\* C37: a call of clearPdf leaves pdfFile and numPages null, the note store
\* empty, loading false and error null, and the layout mode, the three
\* column flags, the modal state, the page width and the two measured
\* widths as they were.
C37_ClearFrame ==
  [][clearPdf =>
       /\ pdfFile' = Null
       /\ numPages' = NoNum
       /\ ocrTexts' = EmptyTexts
       /\ ~loading'
       /\ error' = Null
       /\ UNCHANGED << layoutMode, paneVars, modalVars, scaleVars >>]_vars

\* C37 witness: the document was cleared while the modal was open on page
\* 1, the layout was reading, the PDF column was hidden and the page width
\* of "s" was known: all of them are as before the clear, the document and
\* its notes are gone.
C37_Witness ==
  /\ pdfFile = Null
  /\ numPages = NoNum
  /\ ocrTexts = EmptyTexts
  /\ ~loading
  /\ error = Null
  /\ isModalOpen
  /\ enlargedPage = 1
  /\ layoutMode = "reading"
  /\ ~pdfVisible
  /\ pdfPageWidth = FileInfo("s").width

\* C38: at most one callback of the settle timer is pending, and it is the
\* timer of the last run of the effect; once the effects of a render that
\* found the modal closed have run, and after the unmount, none is pending;
\* a timer is set only by an effect run that found the modal open, and its
\* callback runs only while the modal is open and the component mounted.
C38_SettleTimerCancelled ==
  /\ [](/\ pendingTimers \in 0..1
        /\ pendingTimers = (IF modalTimer # NoNum THEN 1 ELSE 0)
        /\ (EffectsFlushed /\ ~isModalOpen) => pendingTimers = 0
        /\ mounted = "unmounted" => pendingTimers = 0)
  /\ [][/\ TimerFires => (isModalOpen /\ mounted = "mounted")
        /\ pendingTimers' > pendingTimers => (RunEffects /\ isModalOpen)]_vars

\* C38 witness: the component was unmounted while the modal was open and
\* its width had not been read: the timer set at the opening is cleared
\* and no callback is pending.
C38_Witness ==
  /\ mounted = "unmounted"
  /\ isModalOpen
  /\ effectDeps.isModalOpen
  /\ ModalRendered
  /\ modalContainerWidth.n = 0
  /\ modalTimer = NoNum
  /\ pendingTimers = 0

\* The four state values of a document of the comparison after its clear.
C39_Cleared == << Null, NoNum, FALSE, Null >>

\* C39: a file selection, a load success, a load failure and a clear of
\* PDF 1 leave the state of PDF 2, the state of the single document with
\* its note store and the view mode as they were, and those of PDF 2
\* likewise leave PDF 1's; a switch of the view mode, with the load of the
\* <Document> it mounts again (a load that ends while the page count of
\* the last load is still known), leaves the state of all three documents
\* and the note store as they were; clearPdf1 leaves PDF 1 cleared,
\* clearPdf2 PDF 2, and clearComparison leaves both cleared and everything
\* else as it was, which is clearPdf1 followed by clearPdf2.
C39_DocumentsIndependent ==
  [][/\ (\/ \E file \in CompareFiles \cup {Null} : onFile1Change(file)
         \/ Document1Loaded
         \/ Document1Failed
         \/ clearPdf1) => UNCHANGED << pdf2Vars, docVars, viewMode >>
     /\ (\/ \E file \in CompareFiles \cup {Null} : onFile2Change(file)
         \/ Document2Loaded
         \/ Document2Failed
         \/ clearPdf2) => UNCHANGED << pdf1Vars, docVars, viewMode >>
     /\ (\/ \E file \in CompareFiles \cup {Null} : Vm_onFileChange(file)
         \/ Vm_DocumentLoaded
         \/ Vm_DocumentFailed
         \/ Vm_clearPdf) => UNCHANGED << pdf1Vars, pdf2Vars, viewMode >>
     /\ (\E mode \in ViewModes : setViewMode(mode)) =>
          UNCHANGED << docVars, pdf1Vars, pdf2Vars >>
     /\ (\/ Vm_DocumentLoaded /\ numPages # NoNum
         \/ Document1Loaded /\ numPages1 # NoNum
         \/ Document2Loaded /\ numPages2 # NoNum) =>
          UNCHANGED << docVars, pdf1Vars, pdf2Vars >>
     /\ clearPdf1 => pdf1Vars' = C39_Cleared
     /\ clearPdf2 => pdf2Vars' = C39_Cleared
     /\ clearComparison =>
          /\ pdf1Vars' = C39_Cleared
          /\ pdf2Vars' = C39_Cleared
          /\ UNCHANGED << docVars, viewMode >>]_vars

\* C39 without the loads that follow a switch of the view mode: the frame
\* of every callback of the three documents and of setViewMode itself.
C39_CallbackFrames ==
  [][/\ (\/ \E file \in CompareFiles \cup {Null} : onFile1Change(file)
         \/ Document1Loaded
         \/ Document1Failed
         \/ clearPdf1) => UNCHANGED << pdf2Vars, docVars, viewMode >>
     /\ (\/ \E file \in CompareFiles \cup {Null} : onFile2Change(file)
         \/ Document2Loaded
         \/ Document2Failed
         \/ clearPdf2) => UNCHANGED << pdf1Vars, docVars, viewMode >>
     /\ (\/ \E file \in CompareFiles \cup {Null} : Vm_onFileChange(file)
         \/ Vm_DocumentLoaded
         \/ Vm_DocumentFailed
         \/ Vm_clearPdf) => UNCHANGED << pdf1Vars, pdf2Vars, viewMode >>
     /\ (\E mode \in ViewModes : setViewMode(mode)) =>
          UNCHANGED << docVars, pdf1Vars, pdf2Vars >>
     /\ clearComparison =>
          /\ pdf1Vars' = C39_Cleared
          /\ pdf2Vars' = C39_Cleared
          /\ UNCHANGED << docVars, viewMode >>]_vars

====
